---- MODULE Spec2Model ----
(***************************************************************************)
(* A model of the two notebooks of the repository:                         *)
(*   src/XGBoost-Santander.ipynb  one gradient-boosted classifier per      *)
(*                                product on lagged customer features      *)
(*   src/unnamed/part_000         the MovieLens collaborative-filtering    *)
(*                                notebook (RecommenderNet)                *)
(* A notebook is a linear run of cells; pc is the position of the run.     *)
(* Data frames are modelled with their column order, their index labels    *)
(* and their rows; a cell of a frame is a number, a string (a sequence of  *)
(* characters) or NaN.                                                     *)
(***************************************************************************)
EXTENDS Integers, Sequences, FiniteSets, TLC

(***************************************************************************)
(* Bounds of the model.                                                    *)
(***************************************************************************)
\* customers of a month in the label and lag checks
NumCustomers == 2

(***************************************************************************)
(* Generic helpers.                                                        *)
(***************************************************************************)
Range(s) == {s[n] : n \in 1..Len(s)}

Idx(n) == [k \in 1..n |-> k]

Min(S) == CHOOSE m \in S : \A o \in S : m <= o

Max(S) == CHOOSE m \in S : \A o \in S : m >= o

RECURSIVE SortedSeq(_)
\* the elements of a finite set of integers in ascending order
SortedSeq(S) == IF S = {} THEN <<>> ELSE <<Min(S)>> \o SortedSeq(S \ {Min(S)})

\* the first position of c in the sequence s
Pos(s, c) == Min({n \in 1..Len(s) : s[n] = c})

(***************************************************************************)
(* Cells.  k is the kind of the cell: "num" (v holds the number), "str"    *)
(* (s holds the characters) or "nan" (a missing value, numpy's NaN/None).  *)
(***************************************************************************)
Num(n) == [k |-> "num", v |-> n, s |-> <<>>]

Str(chars) == [k |-> "str", v |-> 0, s |-> chars]

NaN == [k |-> "nan", v |-> 0, s |-> <<>>]

IsNull(c) == c.k = "nan"

(***************************************************************************)
(* Data frames: the column names in order, the index labels, the rows.     *)
(***************************************************************************)
DataFrame(cols, index, rows) == [cols |-> cols, index |-> index, rows |-> rows]

EmptyFrame == DataFrame(<<>>, <<>>, <<>>)

\* pandas' default index of a new frame of n rows
RangeIndex(n) == [k \in 1..n |-> k - 1]

\* frame[[c1, c2, ...]]
select(frame, cols) ==
    DataFrame(cols, frame.index,
              [n \in 1..Len(frame.rows) |->
                  [c \in Range(cols) |-> frame.rows[n][c]]])

\* frame.drop([c], axis=1)
drop(frame, c) ==
    select(frame, SelectSeq(frame.cols, LAMBDA d : d # c))

\* frame.fillna(value): every missing cell of every column becomes value
fillna(frame, value) ==
    DataFrame(frame.cols, frame.index,
              [n \in 1..Len(frame.rows) |->
                  [c \in DOMAIN frame.rows[n] |->
                      IF IsNull(frame.rows[n][c]) THEN value
                      ELSE frame.rows[n][c]]])

\* an inner join: a left row without a partner is dropped
JoinPairs_inner(left, right, on) ==
    LET RECURSIVE go(_)
        go(i) ==
            IF i > Len(left.rows) THEN <<>>
            ELSE LET ms == SelectSeq(Idx(Len(right.rows)),
                                     LAMBDA j : right.rows[j][on] = left.rows[i][on])
                 IN  [n \in 1..Len(ms) |-> <<i, ms[n]>>] \o go(i + 1)
    IN  go(1)

\* The (left row, right row) pairs of a left join on the column `on`, in the
\* order of the left frame and, for one left row, of the right frame; a left
\* row without a partner is paired with 0.
JoinPairs(left, right, on) ==
    LET RECURSIVE go(_)
        go(i) ==
            IF i > Len(left.rows) THEN <<>>
            ELSE LET key == left.rows[i][on]
                     ms == SelectSeq(Idx(Len(right.rows)),
                                     LAMBDA j : /\ ~IsNull(key)
                                                /\ right.rows[j][on] = key)
                 IN  (IF ms = <<>> THEN << <<i, 0>> >>
                      ELSE [n \in 1..Len(ms) |-> <<i, ms[n]>>]) \o go(i + 1)
    IN  go(1)

\* pd.merge(left, right, how='left', on=on, suffixes=[lsuffix, rsuffix]):
\* a column name the two frames share (other than the key) gets the suffix of
\* its side; the columns of the left frame come first; the index is reset.
merge(left, right, on, lsuffix, rsuffix) ==
    LET overlap == {c \in Range(left.cols) \cap Range(right.cols) : c # on}
        rcols == SelectSeq(right.cols, LAMBDA c : c # on)
        nl == Len(left.cols)
        cols == [n \in 1..(nl + Len(rcols)) |->
                    IF n <= nl
                    THEN (IF left.cols[n] \in overlap
                          THEN left.cols[n] \o lsuffix ELSE left.cols[n])
                    ELSE (IF rcols[n - nl] \in overlap
                          THEN rcols[n - nl] \o rsuffix ELSE rcols[n - nl])]
        pairs == JoinPairs(left, right, on)
        cell(pair, p) ==
            IF p <= nl THEN left.rows[pair[1]][left.cols[p]]
            ELSE IF pair[2] = 0 THEN NaN
            ELSE right.rows[pair[2]][rcols[p - nl]]
    IN  DataFrame(cols, RangeIndex(Len(pairs)),
                  [n \in 1..Len(pairs) |->
                      [c \in Range(cols) |-> cell(pairs[n], Pos(cols, c))]])

(***************************************************************************)
(* The lists of the notebook (cell "Defining Features of Interest").       *)
(***************************************************************************)
months ==
    << "2015-01-28", "2015-02-28", "2015-03-28", "2015-04-28", "2015-05-28",
       "2015-06-28", "2015-07-28", "2015-08-28", "2015-09-28", "2015-10-28",
       "2015-11-28", "2015-12-28", "2016-01-28", "2016-02-28", "2016-03-28",
       "2016-04-28", "2016-05-28" >>

products ==
    << "ind_ahor_fin_ult1", "ind_aval_fin_ult1", "ind_cco_fin_ult1",
       "ind_cder_fin_ult1", "ind_cno_fin_ult1", "ind_ctju_fin_ult1",
       "ind_ctma_fin_ult1", "ind_ctop_fin_ult1", "ind_ctpp_fin_ult1",
       "ind_deco_fin_ult1", "ind_deme_fin_ult1", "ind_dela_fin_ult1",
       "ind_ecue_fin_ult1", "ind_fond_fin_ult1", "ind_hip_fin_ult1",
       "ind_plan_fin_ult1", "ind_pres_fin_ult1", "ind_reca_fin_ult1",
       "ind_tjcr_fin_ult1", "ind_valo_fin_ult1", "ind_viv_fin_ult1",
       "ind_nomina_ult1", "ind_nom_pens_ult1", "ind_recibo_ult1" >>

rec_products ==
    << "ind_recibo_ult1", "ind_cco_fin_ult1", "ind_nom_pens_ult1",
       "ind_nomina_ult1", "ind_tjcr_fin_ult1", "ind_ecue_fin_ult1",
       "ind_cno_fin_ult1", "ind_ctma_fin_ult1", "ind_reca_fin_ult1",
       "ind_ctop_fin_ult1", "ind_ctpp_fin_ult1", "ind_valo_fin_ult1" >>

features ==
    << "fecha_dato", "ncodpers", "ind_empleado",
       "pais_residencia", "sexo", "age", "fecha_alta", "ind_nuevo",
       "antiguedad", "indrel", "ult_fec_cli_1t", "indrel_1mes",
       "tiprel_1mes", "indresi", "indext", "conyuemp", "canal_entrada",
       "indfall", "tipodom", "cod_prov", "nomprov",
       "ind_actividad_cliente", "renta", "segmento" >>

(***************************************************************************)
(* get_new_products                                                        *)
(***************************************************************************)
ClipDelta_keep(d) == d

\* added.loc[added[pr] == -1, pr] = 0
ClipDelta(d) == IF d = -1 THEN 0 ELSE d

\* The frame of the labels: for every row of the left join of the current
\* month with the previous month, and every product to recommend, the
\* difference of the two ownership flags, a dropped product counting as 0.
get_new_products(d, pd) ==
    LET merged == fillna(merge(d, pd, "ncodpers", "_x", "_y"), Num(0))
    IN  DataFrame(rec_products, merged.index,
                  [n \in 1..Len(merged.rows) |->
                      [pr \in Range(rec_products) |->
                          Num(ClipDelta(merged.rows[n][pr \o "_x"].v
                                        - merged.rows[n][pr \o "_y"].v))]])

(***************************************************************************)
(* The state of the Santander notebook.                                    *)
(***************************************************************************)
VARIABLES
    pc,             \* the position of the run
    err,            \* the exception that ended the run, "" when none
    bound,          \* the names bound in the notebook's namespace
    train_ver2,     \* the rows of train_ver2.csv
    test_ver2,      \* the rows of test_ver2.csv
    data, pdata,    \* the current and the previous month
    X, y,           \* features and labels
    Xtrain, Xval, ytrain, yval,
    targlist,
    clfdict,        \* product -> fitted classifier
    probs,          \* the list of probability columns, then the matrix
    likeliestprods, prlist,
    Xtest, ids, test_preds,
    out,            \* the frame written to output.csv
    \* the MovieLens notebook
    df,             \* the ratings table
    df_index,       \* the index labels of its rows
    ml_x, ml_y,     \* x and y of the MovieLens notebook
    train_indices, x_train, x_val, y_train, y_val,
    user_ids, user2user_encoded, userencoded2user,
    movie_ids, movie2movie_encoded, movie_encoded2movie,
    num_users, num_movies, min_rating, max_rating,
    model,          \* the RecommenderNet: its sizes and its four layers
    inputs,         \* the batch RecommenderNet.call is given
    outputs,        \* what it returns
    movie_df,       \* the rows of movies.csv
    user_id, movies_watched_by_user, movies_not_watched, user_encoder,
    user_movie_array, ratings, top_ratings_indices, recommended_movie_ids,
    disk,           \* the keras datasets directory: the zip file, the
                    \* directory ml-latest-small and its ratings.csv
    archive,        \* the ratings.csv inside the zip file of the url
    stdout,         \* the lines printed, over all runs of the script
    runs            \* the runs of the script started

files == <<train_ver2, test_ver2>>
frames == <<data, pdata, X, y>>
splits == <<Xtrain, Xval, ytrain, yval, targlist>>
models == <<clfdict, probs, likeliestprods, prlist>>
tests == <<Xtest, ids, test_preds, out>>
encoders ==
    <<user_ids, user2user_encoded, userencoded2user,
      movie_ids, movie2movie_encoded, movie_encoded2movie,
      num_users, num_movies, min_rating, max_rating>>
prepared == <<ml_x, ml_y, train_indices, x_train, x_val, y_train, y_val>>
recommendation ==
    <<user_id, movies_watched_by_user, movies_not_watched, user_encoder,
      user_movie_array, ratings, top_ratings_indices, recommended_movie_ids>>
storage == <<disk, archive, stdout, runs>>
movielens ==
    <<df, df_index, encoders, prepared, model, inputs, outputs, movie_df,
      recommendation, storage>>
vars == <<pc, err, bound, files, frames, splits, models, tests, movielens>>

\* the values of the names a check does not draw
NoFiles == train_ver2 = <<>> /\ test_ver2 = <<>>

NoFrames ==
    data = EmptyFrame /\ pdata = EmptyFrame /\ X = EmptyFrame /\ y = EmptyFrame

NoSplits ==
    /\ Xtrain = EmptyFrame /\ Xval = EmptyFrame
    /\ ytrain = EmptyFrame /\ yval = EmptyFrame
    /\ targlist = <<>>

NoModels ==
    clfdict = <<>> /\ probs = <<>> /\ likeliestprods = <<>> /\ prlist = <<>>

NoTests ==
    Xtest = EmptyFrame /\ ids = EmptyFrame /\ test_preds = <<>> /\ out = EmptyFrame

NoEncoders ==
    /\ user_ids = <<>> /\ user2user_encoded = <<>> /\ userencoded2user = <<>>
    /\ movie_ids = <<>> /\ movie2movie_encoded = <<>>
    /\ movie_encoded2movie = <<>>
    /\ num_users = 0 /\ num_movies = 0 /\ min_rating = 0 /\ max_rating = 0

NoNet == model = <<>> /\ inputs = <<>> /\ outputs = <<>>

NoPrepared ==
    /\ ml_x = <<>> /\ ml_y = <<>> /\ train_indices = 0
    /\ x_train = <<>> /\ x_val = <<>> /\ y_train = <<>> /\ y_val = <<>>

NoRecommendation ==
    /\ user_id = 0 /\ movies_watched_by_user = <<>>
    /\ movies_not_watched = <<>> /\ user_encoder = 0
    /\ user_movie_array = <<>> /\ ratings = <<>>
    /\ top_ratings_indices = <<>> /\ recommended_movie_ids = <<>>

\* no file of the MovieLens notebook in the keras datasets directory
NoDisk == [zip |-> FALSE, dir |-> FALSE, ratings |-> <<>>]

NoStorage == disk = NoDisk /\ archive = <<>> /\ stdout = <<>> /\ runs = 0

NoMovieLens ==
    /\ df = <<>> /\ df_index = <<>> /\ NoEncoders /\ NoPrepared /\ NoNet
    /\ movie_df = <<>> /\ NoRecommendation /\ NoStorage

NoSantander ==
    /\ NoFiles /\ NoFrames /\ NoSplits /\ NoModels /\ NoTests

(***************************************************************************)
(* Inputs of the label check: the current and the previous month, one      *)
(* record per customer and month.                                          *)
(***************************************************************************)
\* an ownership flag of the file: 0, 1 or missing
Flag(p, held, missing) ==
    IF p \in held THEN Num(1) ELSE IF p \in missing THEN NaN ELSE Num(0)

\* (the products held, the products whose flag the file leaves empty);
\* ind_nomina_ult1 and ind_nom_pens_ult1 are the flags with empty fields
Holdings ==
    { <<{}, {}>>,
      <<{"ind_recibo_ult1", "ind_ahor_fin_ult1", "ind_tjcr_fin_ult1"}, {}>>,
      <<{"ind_recibo_ult1", "ind_cco_fin_ult1", "ind_nomina_ult1"}, {}>>,
      <<{"ind_recibo_ult1"}, {"ind_nomina_ult1", "ind_nom_pens_ult1"}>> }

ProductCols == <<"ncodpers">> \o products

\* the records of the customers custs, in ascending order, with holdings h
ProductFrame(custs, h) ==
    LET cs == SortedSeq(custs)
    IN  DataFrame(ProductCols, RangeIndex(Len(cs)),
                  [n \in 1..Len(cs) |->
                      [c \in Range(ProductCols) |->
                          IF c = "ncodpers" THEN Num(cs[n])
                          ELSE Flag(c, h[cs[n]][1], h[cs[n]][2])]])

ProductFrames ==
    UNION { { ProductFrame(custs, h) : h \in [custs -> Holdings] } :
            custs \in SUBSET (1..NumCustomers) }

InitLabels ==
    /\ pc = "labels"
    /\ err = ""
    /\ bound = {"dates", "data", "pdata", "X"}
    /\ NoFiles
    /\ data \in {f \in ProductFrames : f.rows # <<>>}
    /\ pdata \in ProductFrames
    /\ X = EmptyFrame
    /\ y = EmptyFrame
    /\ NoSplits /\ NoModels /\ NoTests /\ NoMovieLens

\* y = get_new_products(data[['ncodpers']+products], pdata)
BuildLabels ==
    /\ pc = "labels"
    /\ {"data", "pdata"} \subseteq bound
    /\ y' = get_new_products(select(data, ProductCols), pdata)
    /\ bound' = bound \cup {"y"}
    /\ pc' = "split"
    /\ UNCHANGED <<err, files, movielens, data, pdata, X, splits, models, tests>>

NextLabels == BuildLabels

SpecLabels == InitLabels /\ [][NextLabels]_vars

(***************************************************************************)
(* C1: every label get_new_products returns is 0 or 1; it is 1 exactly     *)
(* when the customer holds the product in the current month and did not    *)
(* hold it in the previous month (a missing flag, or no record of the      *)
(* previous month, counting as 0), also when the product was dropped.      *)
(***************************************************************************)
\* whether the frame holds a record of customer c with flag 1 for product p
Holds(frame, c, p) ==
    \E n \in 1..Len(frame.rows) :
        /\ frame.rows[n]["ncodpers"] = Num(c)
        /\ frame.rows[n][p] = Num(1)

InFrame(frame, c) ==
    \E n \in 1..Len(frame.rows) : frame.rows[n]["ncodpers"] = Num(c)

C17_OnlyCustomersOfBothMonths ==
    pc = "split" =>
        \A n \in 1..Len(y.rows) :
            ~InFrame(pdata, data.rows[n]["ncodpers"].v) =>
                \A p \in Range(rec_products) : y.rows[n][p] = Num(0)

(***************************************************************************)
(* Ranking of the predicted probabilities (np.argsort and the slices).     *)
(* A probability is modelled by an integer, its numerator over a fixed     *)
(* denominator.                                                            *)
(***************************************************************************)
\* rows of the validation set in the ranking check
NumValRows == 2

\* likeliestprods = np.argsort(probs, axis=1)[:, :-8:-1]
ValStop == -8

\* likeliestprods = np.argsort(probs, axis=1)[:, :-6:-1]
TestStop == -6

\* np.array(list of columns).T
Transpose(columns) ==
    [r \in 1..Len(columns[1]) |-> [j \in 1..Len(columns) |-> columns[j][r]]]

\* numpy's default sort is not stable: the order of equal elements is not
\* fixed; they come by ascending or by descending position.
TieOrders == {"index", "reverse"}

\* np.argsort(row): the 0-based positions of the row in ascending order of
\* their values
argsort(row, tie) ==
    LET n == Len(row)
        key(j) == row[j] * (n + 1) + (IF tie = "index" THEN j ELSE n + 1 - j)
        keys == SortedSeq({key(j) : j \in 1..n})
    IN  [k \in 1..n |-> (CHOOSE j \in 1..n : key(j) = keys[k]) - 1]

ReverseSlice_head(a, stop) ==
    [j \in 1..(IF -stop - 1 < Len(a) THEN -stop - 1 ELSE Len(a)) |-> a[j]]

\* a[:stop:-1] for a negative stop: from the last element backwards, down to
\* and without the element at position len(a) + stop
ReverseSlice(a, stop) ==
    [j \in 1..(IF -stop - 1 < Len(a) THEN -stop - 1 ELSE Len(a)) |->
        a[Len(a) - j + 1]]

\* np.argsort(matrix, axis=1)[:, :stop:-1]
likeliest(matrix, stop, tie) ==
    [r \in 1..Len(matrix) |-> ReverseSlice(argsort(matrix[r], tie), stop)]

\* the names taken from the list of all products
product_names_all(rows) ==
    [r \in 1..Len(rows) |-> [k \in 1..Len(rows[r]) |-> products[rows[r][k] + 1]]]

\* [[rec_products[j] for j in row] for row in likeliestprods]
product_names(rows) ==
    [r \in 1..Len(rows) |-> [k \in 1..Len(rows[r]) |-> rec_products[rows[r][k] + 1]]]

\* every name stays bound
del_none(env, names) == env

\* del names: they are bound no more
del(env, names) == env \ names

\* probs = np.array(probs).T; likeliestprods = ...; prlist = ...;
\* del Xtrain, Xval, ytrain, yval
RankValidation ==
    /\ pc = "rank"
    /\ \E tie \in TieOrders :
          /\ probs' = Transpose(probs)
          /\ likeliestprods' = likeliest(probs', ValStop, tie)
          /\ prlist' = product_names(likeliestprods')
    /\ Xtrain' = EmptyFrame /\ Xval' = EmptyFrame
    /\ ytrain' = EmptyFrame /\ yval' = EmptyFrame
    /\ bound' = del(bound \cup {"likeliestprods", "prlist"},
                     {"Xtrain", "Xval", "ytrain", "yval"})
    /\ pc' = "loadtest"
    /\ UNCHANGED <<err, files, movielens, frames, targlist, clfdict, tests>>

\* probs = np.array(probs).T; likeliestprods = ...; test_preds = ...
RankTest ==
    /\ pc = "ranktest"
    /\ \E tie \in TieOrders :
          /\ probs' = Transpose(probs)
          /\ likeliestprods' = likeliest(probs', TestStop, tie)
          /\ test_preds' = product_names(likeliestprods')
    /\ bound' = bound \cup {"likeliestprods", "test_preds"}
    /\ pc' = "write"
    /\ UNCHANGED <<err, files, movielens, frames, splits, clfdict, prlist, Xtest, ids, out>>

\* rows of probabilities with ties of several sizes and with none
ProbRows ==
    { [j \in 1..Len(rec_products) |-> (a * j + b) % m] :
        a \in {0, 1, 3, 5}, b \in {0, 1}, m \in {2, 3, 5, 13} }

InitTopK ==
    /\ pc \in {"rank", "ranktest"}
    /\ err = ""
    /\ bound = {"dates", "clfdict", "probs"}
                  \cup (IF pc = "rank" THEN {"Xtrain", "Xval", "ytrain", "yval"}
                        ELSE {"Xtest", "ids"})
    /\ NoFiles /\ NoFrames /\ NoSplits /\ NoTests /\ NoMovieLens
    /\ clfdict = <<>>
    /\ \E matrix \in [1..NumValRows -> ProbRows] : probs = Transpose(matrix)
    /\ likeliestprods = <<>> /\ prlist = <<>>

NextTopK == RankValidation \/ RankTest

SpecTopK == InitTopK /\ [][NextTopK]_vars

(***************************************************************************)
(* C2: for every row of the probability matrix the K product indices       *)
(* returned (K = 7 on the validation set, K = 5 on the test set, of 12     *)
(* products) come in non-increasing order of probability, and no product   *)
(* left out has a strictly higher probability than a returned one.         *)
(***************************************************************************)
RankedTopK(K) ==
    \A r \in 1..Len(probs) :
        LET top == likeliestprods[r]
            p(j) == probs[r][j + 1]
        IN  /\ Len(top) = K
            /\ Range(top) \subseteq 0..(Len(rec_products) - 1)
            /\ \A a, b \in 1..K : a < b => p(top[a]) >= p(top[b])
            /\ \A q \in (0..(Len(rec_products) - 1)) \ Range(top) :
                  \A a \in 1..K : p(q) <= p(top[a])

C2_TopKSorted ==
    /\ pc = "loadtest" => RankedTopK(7)
    /\ pc = "write" => RankedTopK(5)

\* a row where the returned products differ in probability and a product
\* left out ties with the last one returned
C2_Witness ==
    /\ pc = "write"
    /\ \E r \in 1..Len(probs) :
          /\ probs[r][likeliestprods[r][1] + 1] > probs[r][likeliestprods[r][5] + 1]
          /\ \E q \in (0..11) \ Range(likeliestprods[r]) :
                probs[r][q + 1] = probs[r][likeliestprods[r][5] + 1]
          /\ \E q \in (0..11) \ Range(likeliestprods[r]) :
                probs[r][q + 1] < probs[r][likeliestprods[r][5] + 1]

(***************************************************************************)
(* Text of a cell: str.strip, int(), pd.to_numeric.                        *)
(***************************************************************************)
Digits == <<"0", "1", "2", "3", "4", "5", "6", "7", "8", "9">>

IsDigit(ch) == ch \in Range(Digits)

DigitValue(ch) == Pos(Digits, ch) - 1

RECURSIVE Join(_)
\* ''.join(chars)
Join(chars) == IF chars = <<>> THEN "" ELSE Head(chars) \o Join(Tail(chars))

RECURSIVE LStrip(_)
LStrip(chars) ==
    IF chars # <<>> /\ Head(chars) = " " THEN LStrip(Tail(chars)) ELSE chars

RECURSIVE RStrip(_)
RStrip(chars) ==
    IF chars # <<>> /\ chars[Len(chars)] = " "
    THEN RStrip(SubSeq(chars, 1, Len(chars) - 1)) ELSE chars

\* str.strip()
Strip(chars) == RStrip(LStrip(chars))

\* the text after an optional sign
Unsigned(chars) ==
    IF chars # <<>> /\ Head(chars) \in {"-", "+"} THEN Tail(chars) ELSE chars

\* whether int(chars) returns (chars is stripped): an optional sign and
\* at least one digit, nothing else
IsIntLiteral(chars) ==
    /\ Unsigned(chars) # <<>>
    /\ \A n \in 1..Len(Unsigned(chars)) : IsDigit(Unsigned(chars)[n])

RECURSIVE DigitsValue(_)
DigitsValue(chars) ==
    IF chars = <<>> THEN 0
    ELSE 10 * DigitsValue(SubSeq(chars, 1, Len(chars) - 1))
            + DigitValue(chars[Len(chars)])

\* int(chars)
IntValue(chars) ==
    IF chars # <<>> /\ Head(chars) = "-" THEN 0 - DigitsValue(Unsigned(chars))
    ELSE DigitsValue(Unsigned(chars))

(***************************************************************************)
(* Series (the cells of one column, in row order).                         *)
(***************************************************************************)
column(frame, c) == [n \in 1..Len(frame.rows) |-> frame.rows[n][c]]

\* the dtype of a column read by read_csv is object when it holds text, and
\* int64 or float64 otherwise
IsObject(series) == \E n \in 1..Len(series) : series[n].k = "str"

\* the numbers of a series, missing cells left out (dropna)
Observed(series) ==
    LET keep == SelectSeq(series, LAMBDA c : ~IsNull(c))
    IN  [n \in 1..Len(keep) |-> keep[n].v]

\* Series.median() of the observed values: the middle value, or the mean of
\* the two middle values; NaN when there is none.  The values the checks
\* draw are even, so that the mean is an integer.
Median(values) ==
    LET sorted == SortSeq(values, LAMBDA a, b : a < b)
        n == Len(values)
    IN  IF n = 0 THEN NaN
        ELSE IF n % 2 = 1 THEN Num(sorted[(n + 1) \div 2])
        ELSE Num((sorted[n \div 2] + sorted[n \div 2 + 1]) \div 2)

\* the series as it is
fill_none(series, value) == series

\* Series.fillna(value)
fill(series, value) ==
    [n \in 1..Len(series) |-> IF IsNull(series[n]) THEN value ELSE series[n]]

(***************************************************************************)
(* get_features                                                            *)
(***************************************************************************)
NA == <<"N", "A">>

\* int(x) raises ValueError: x is text that is no integer, or x is not text
\* at all (str.strip() turns a cell that is no text into NaN, and int(NaN)
\* raises)
IntRaises(cell) ==
    \/ cell.k # "str"
    \/ /\ Strip(cell.s) # NA
       /\ ~IsIntLiteral(Strip(cell.s))

\* whether the conversion of an object column raises
ParseRaises(series) ==
    /\ IsObject(series)
    /\ \E n \in 1..Len(series) : IntRaises(series[n])

to_int_nazero(series) ==
    IF ~IsObject(series) THEN series
    ELSE [n \in 1..Len(series) |->
            IF Strip(series[n].s) = NA THEN Num(0)
            ELSE Num(IntValue(Strip(series[n].s)))]

\* if dtype is neither int64 nor float64:
\*     col = col.str.strip(); col = col.map(lambda x: None if x=='NA' else int(x))
to_int(series) ==
    IF ~IsObject(series) THEN series
    ELSE [n \in 1..Len(series) |->
            IF Strip(series[n].s) = NA THEN NaN
            ELSE Num(IntValue(Strip(series[n].s)))]

\* pd.to_numeric(series, errors='coerce'): text that is no number becomes NaN
to_numeric(series) ==
    [n \in 1..Len(series) |->
        IF series[n].k = "str"
        THEN (IF IsIntLiteral(Strip(series[n].s))
              THEN Num(IntValue(Strip(series[n].s))) ELSE NaN)
        ELSE series[n]]

\* data.antiguedad[data.antiguedad<0] = data.antiguedad.max()
replace_negative(series) ==
    [n \in 1..Len(series) |->
        IF ~IsNull(series[n]) /\ series[n].v < 0
        THEN Num(Max(Range(Observed(series)))) ELSE series[n]]

\* Dummy State Code for Foreign clients
cod_prov_default == 99

segmento_default ==
    Str(<<"0", "2", " ", "-", " ", "P", "A", "R", "T", "I", "C", "U", "L", "A",
          "R", "E", "S">>)

\* x[:2]
first_two(cell) ==
    Str(SubSeq(cell.s, 1, IF Len(cell.s) < 2 THEN Len(cell.s) ELSE 2))

impute_renta_all(renta, segmento) ==
    fill(renta, Median(Observed(renta)))

\* for seg in data.segmento.unique():
\*     med = data[data.segmento==seg]['renta'].dropna().median()
\*     data.loc[(data.renta.isnull()) & (data.segmento==seg), 'renta'] = med
\* Every row belongs to one segment, and the median of a segment is taken
\* over the observed values, which the loop does not change.
impute_renta(renta, segmento) ==
    [n \in 1..Len(renta) |->
        IF IsNull(renta[n])
        THEN Median(Observed(
                 [k \in 1..Len(renta) |->
                     IF segmento[k] = segmento[n] THEN renta[k] ELSE NaN]))
        ELSE renta[n]]

\* the categories of pd.get_dummies, in sorted order
tiprel_categories == << <<"A">>, <<"I">>, <<"N">>, <<"P">>, <<"R">> >>

segmento_categories == << <<"0", "1">>, <<"0", "2">>, <<"0", "3">> >>

\* the columns of pd.get_dummies(series): one per value that occurs
dummy_columns(series, categories) ==
    SelectSeq(categories, LAMBDA v : \E n \in 1..Len(series) : series[n].s = v)

Xclient_columns ==
    << "ncodpers", "isEmployed", "sexo", "age", "antiguedad", "indfall",
       "ind_actividad_cliente", "renta" >>

\* whether get_features(d, pd) raises (ValueError, from int(x))
get_features_raises(d) ==
    \/ ParseRaises(column(d, "antiguedad"))
    \/ ParseRaises(column(d, "age"))

\* the columns of data after the statements of get_features that fill
\* missing values (antiguedad ... cod_prov), when they do not raise
imputation(d) ==
    LET n == Len(d.rows)
        antiguedad0 == replace_negative(to_int(column(d, "antiguedad")))
        age0 == to_int(column(d, "age"))
        segmento0 == fill(column(d, "segmento"), segmento_default)
        indfall0 == fill(column(d, "indfall"), Str(<<"N">>))
    IN  [antiguedad |-> fill(antiguedad0, Median(Observed(antiguedad0))),
         age |-> fill(age0, Median(Observed(age0))),
         tiprel_1mes |-> fill(column(d, "tiprel_1mes"), Str(<<"I">>)),
         segmento |-> [k \in 1..n |-> first_two(segmento0[k])],
         indfall |-> [k \in 1..n |->
                         IF indfall0[k].s = <<"S">> THEN Num(1) ELSE Num(0)],
         cod_prov |-> fill(column(d, "cod_prov"), Num(cod_prov_default))]

\* get_features(d, pd), when it returns
get_features(d, pd) ==
    LET n == Len(d.rows)
        isEmployed == [k \in 1..n |->
            IF d.rows[k]["ind_empleado"].s \in {<<"N">>, <<"S">>}
            THEN Num(0) ELSE Num(1)]
        antiguedad == imputation(d).antiguedad
        age == imputation(d).age
        tiprel_1mes == imputation(d).tiprel_1mes
        sexo == [k \in 1..n |->
            IF d.rows[k]["sexo"].s = <<"H">> THEN Num(0) ELSE Num(1)]
        segmento == imputation(d).segmento
        indfall == imputation(d).indfall
        renta == impute_renta(to_numeric(column(d, "renta")), segmento)
        tcols == dummy_columns(tiprel_1mes, tiprel_categories)
        scols == dummy_columns(segmento, segmento_categories)
        dummy(series, cats) ==
            [k \in 1..n |-> [j \in 1..Len(cats) |->
                IF series[k].s = cats[j] THEN Num(1) ELSE Num(0)]]
        cols == Xclient_columns
                  \o [j \in 1..Len(tcols) |-> Join(tcols[j])]
                  \o [j \in 1..Len(scols) |-> Join(scols[j])]
        cells(k) ==
            << d.rows[k]["ncodpers"], isEmployed[k], sexo[k], age[k],
               antiguedad[k], indfall[k], d.rows[k]["ind_actividad_cliente"],
               renta[k] >>
              \o dummy(tiprel_1mes, tcols)[k] \o dummy(segmento, scols)[k]
        Xclient == DataFrame(cols, d.index,
                      [k \in 1..n |-> [c \in Range(cols) |-> cells(k)[Pos(cols, c)]]])
    IN  fillna(merge(Xclient, pd, "ncodpers", "_x", "_y"), Num(0))

\* X = get_features(data[features], pdata)
BuildFeatures ==
    /\ pc = "features"
    /\ {"data", "pdata"} \subseteq bound
    /\ IF get_features_raises(select(data, features))
       THEN /\ pc' = "raised"
            /\ err' = "ValueError"
            /\ UNCHANGED <<bound, X>>
       ELSE /\ X' = get_features(select(data, features), pdata)
            /\ bound' = bound \cup {"X"}
            /\ pc' = "lags"
            /\ UNCHANGED err
    /\ UNCHANGED <<files, movielens, data, pdata, y, splits, models, tests>>

\* Xtest = get_features(data[features], pdata)
BuildTestFeatures ==
    /\ pc = "testfeatures"
    /\ {"data", "pdata"} \subseteq bound
    /\ IF get_features_raises(select(data, features))
       THEN /\ pc' = "raised"
            /\ err' = "ValueError"
            /\ UNCHANGED <<bound, Xtest>>
       ELSE /\ Xtest' = get_features(select(data, features), pdata)
            /\ bound' = bound \cup {"Xtest"}
            /\ pc' = "testlags"
            /\ UNCHANGED err
    /\ UNCHANGED <<files, movielens, frames, splits, models, ids, test_preds, out>>

(***************************************************************************)
(* Inputs of the checks of get_features: the customer records of a month,  *)
(* as read from the file.                                                  *)
(***************************************************************************)
\* rows of the month in the checks of get_features
NumRows == 3

\* the feature columns of a record that get_features reads; the other
\* feature columns are left empty
BaseRecord ==
    [ind_empleado |-> Str(<<"N">>), sexo |-> Str(<<"V">>),
     age |-> Str(<<" ", "2", "4">>), antiguedad |-> Str(<<" ", " ", "6">>),
     tiprel_1mes |-> Str(<<"A">>),
     segmento |-> Str(<<"0", "3", " ", "-", " ", "U", "N", "I", "V", "E", "R",
                       "S", "I", "T", "A", "R", "I", "O">>),
     indfall |-> Str(<<"N">>), cod_prov |-> Num(28),
     ind_actividad_cliente |-> Num(1), renta |-> Num(4)]

\* segments and incomes, observed and missing
RentaRecords ==
    { [BaseRecord EXCEPT !.segmento = seg, !.renta = renta] :
        seg \in {NaN, segmento_default, BaseRecord.segmento},
        renta \in {NaN, Num(2), Num(10)} }

\* numeric fields as text, as numbers, missing, and text that is no number
TextRecords ==
    {BaseRecord}
    \cup { [BaseRecord EXCEPT !.age = a] :
             a \in {Str(<<" ", "N", "A">>), Str(<<"4", "x">>), Num(40), NaN} }
    \cup { [BaseRecord EXCEPT !.antiguedad = a] :
             a \in {Str(<<"-", "9", "9", "9", "9", "9", "9">>),
                    Str(<<" ", " ", " ", " ", "N", "A">>), Str(<<"1", "2", " ">>)} }
    \cup { [BaseRecord EXCEPT !.renta = a] :
             a \in {Str(<<" ", " ", "N", "A">>), Str(<<"1", "0">>),
                    Str(<<"1", "e">>)} }
    \cup { [BaseRecord EXCEPT !.tiprel_1mes = NaN, !.indfall = NaN,
                              !.cod_prov = NaN],
           [BaseRecord EXCEPT !.indfall = Str(<<"S">>)] }

\* the frame of the records recs (customer n in row n), with the columns cols
RecordFrame(recs, cols) ==
    DataFrame(cols, RangeIndex(Len(recs)),
              [n \in 1..Len(recs) |->
                  [c \in Range(cols) |->
                      IF c = "ncodpers" THEN Num(n)
                      ELSE IF c \in DOMAIN recs[n] THEN recs[n][c]
                      ELSE IF c \in Range(products) THEN Num(0)
                      ELSE NaN]])

\* the previous month of the checks of get_features: customer 1 only
OneCustomer ==
    ProductFrame({1}, [c \in {1} |->
        <<{"ind_recibo_ult1", "ind_cco_fin_ult1", "ind_nomina_ult1"}, {}>>])

\* the training cell is drawn with segments and incomes, the test cell with
\* the numeric fields as text
InitFeatures ==
    /\ pc \in {"features", "testfeatures"}
    /\ err = ""
    /\ bound = {"dates", "data", "pdata"}
                  \cup (IF pc = "features" THEN {} ELSE {"clfdict", "probs"})
    /\ NoFiles
    /\ IF pc = "features"
       THEN \E recs \in [1..NumRows -> RentaRecords] :
               data = RecordFrame(recs, features \o products)
       ELSE \E recs \in [1..NumRows -> TextRecords] :
               data = RecordFrame(recs, features)
    /\ pdata = OneCustomer
    /\ X = EmptyFrame /\ y = EmptyFrame
    /\ NoSplits /\ NoModels /\ NoTests /\ NoMovieLens

NextFeatures == BuildFeatures \/ BuildTestFeatures

SpecFeatures == InitFeatures /\ [][NextFeatures]_vars

(***************************************************************************)
(* What the checks of get_features compare the result with.                *)
(***************************************************************************)
\* the frame get_features returned, and whether it returned
Returned == pc \in {"lags", "testlags"}

Result == IF pc = "lags" THEN X ELSE Xtest

\* the k-th smallest of the values, by counting
KthSmallest(values, k) ==
    CHOOSE a \in Range(values) :
        /\ Cardinality({i \in 1..Len(values) : values[i] < a}) < k
        /\ k <= Cardinality({i \in 1..Len(values) : values[i] <= a})

\* the median of a non-empty list of values: the mean of the two middle ones
MedianOf(values) ==
    (KthSmallest(values, (Len(values) + 1) \div 2)
       + KthSmallest(values, Len(values) \div 2 + 1)) \div 2

\* the texts the checks draw, with the number each stands for
NumberTexts ==
    { <<(<<" ", "2", "4">>), 24>>, <<(<<" ", " ", "6">>), 6>>,
      <<(<<"1", "2", " ">>), 12>>, <<(<<"1", "0">>), 10>>,
      <<(<<"-", "9", "9", "9", "9", "9", "9">>), -999999>> }

NATexts ==
    { <<" ", "N", "A">>, <<" ", " ", "N", "A">>, <<" ", " ", " ", " ", "N", "A">> }

IsNumberText(cell) == cell.k = "str" /\ \E t \in NumberTexts : t[1] = cell.s

NumberOf(cell) == (CHOOSE t \in NumberTexts : t[1] = cell.s)[2]

\* the number a cell of the file stands for; none when it is missing or is
\* text that is no number
HasNumber(cell) == cell.k = "num" \/ IsNumberText(cell)

NumberIn(cell) == IF cell.k = "num" THEN cell.v ELSE NumberOf(cell)

\* the segment code of a record: the first two characters, '02' when missing
SegmentCode(cell) == IF IsNull(cell) THEN <<"0", "2">> ELSE SubSeq(cell.s, 1, 2)

\* the observed incomes of the records of the segment of record n
SegmentIncomes(n) ==
    LET same == SelectSeq(Idx(Len(data.rows)), LAMBDA k :
                    /\ SegmentCode(data.rows[k]["segmento"])
                          = SegmentCode(data.rows[n]["segmento"])
                    /\ HasNumber(data.rows[k]["renta"]))
    IN  [j \in 1..Len(same) |-> NumberIn(data.rows[same[j]]["renta"])]

(***************************************************************************)
(* C4 as claimed: every record whose renta is missing gets the median of   *)
(* the observed renta of its segment; an observed renta is kept.           *)
(***************************************************************************)
C4_EveryMissingRentaIsSegmentMedian ==
    Returned =>
        \A n \in 1..Len(data.rows) :
            IF HasNumber(data.rows[n]["renta"])
            THEN Result.rows[n]["renta"] = Num(NumberIn(data.rows[n]["renta"]))
            ELSE /\ SegmentIncomes(n) # <<>>
                 /\ Result.rows[n]["renta"] = Num(MedianOf(SegmentIncomes(n)))

(***************************************************************************)
(* C4 as amended: in a segment with at least one observed renta, every     *)
(* record whose renta is missing gets the median of the observed renta of  *)
(* that segment; in a segment with no observed renta the records stay      *)
(* missing, and the frame returned holds 0 for them; an observed renta is  *)
(* kept.                                                                   *)
(***************************************************************************)
C4_RentaImputation ==
    Returned =>
        \A n \in 1..Len(data.rows) :
            Result.rows[n]["renta"] =
                IF HasNumber(data.rows[n]["renta"])
                THEN Num(NumberIn(data.rows[n]["renta"]))
                ELSE IF SegmentIncomes(n) # <<>>
                THEN Num(MedianOf(SegmentIncomes(n)))
                ELSE Num(0)

\* a missing renta imputed from the one observed renta of its segment, while
\* another segment holds a different renta
C4_Witness ==
    /\ Returned
    /\ \E n, k \in 1..Len(data.rows) :
          /\ IsNull(data.rows[n]["renta"])
          /\ SegmentIncomes(n) # <<>>
          /\ Result.rows[n]["renta"] = Num(MedianOf(SegmentIncomes(n)))
          /\ SegmentCode(data.rows[k]["segmento"]) # SegmentCode(data.rows[n]["segmento"])
          /\ HasNumber(data.rows[k]["renta"])
          /\ Num(NumberIn(data.rows[k]["renta"])) # Result.rows[n]["renta"]

(***************************************************************************)
(* C8 as claimed: get_features does not raise on a value that cannot be    *)
(* parsed as a number.                                                     *)
(***************************************************************************)
C8_NeverRaises == pc # "raised"

(***************************************************************************)
(* C8 as amended: a renta that cannot be parsed as a number becomes a      *)
(* missing value and is imputed, and never makes get_features raise.  In   *)
(* an age or antiguedad column that holds text only the text 'NA' (with    *)
(* or without blanks around it) becomes a missing value, imputed with the  *)
(* median of the column; any other cell that is not the text of an         *)
(* integer, a cell of such a column that is no text included, makes        *)
(* get_features raise ValueError.                                          *)
(***************************************************************************)
\* the column c holds text and one of its cells is neither 'NA' nor a number
\* given as text
BadCell(c) ==
    /\ \E n \in 1..Len(data.rows) : data.rows[n][c].k = "str"
    /\ \E n \in 1..Len(data.rows) :
          /\ ~IsNumberText(data.rows[n][c])
          /\ ~(data.rows[n][c].k = "str" /\ data.rows[n][c].s \in NATexts)

\* the numbers of column c, a negative antiguedad replaced by the maximum
ColumnNumbers(c) ==
    LET has == SelectSeq(Idx(Len(data.rows)), LAMBDA k : HasNumber(data.rows[k][c]))
        raw == [j \in 1..Len(has) |-> NumberIn(data.rows[has[j]][c])]
    IN  [j \in 1..Len(raw) |->
            IF c = "antiguedad" /\ raw[j] < 0 THEN Max(Range(raw)) ELSE raw[j]]

C8_ParsingOfNumbers ==
    /\ pc = "raised" <=>
          /\ pc \notin {"features", "testfeatures"}
          /\ BadCell("age") \/ BadCell("antiguedad")
    /\ pc = "raised" => err = "ValueError"
    /\ Returned =>
          \A n \in 1..Len(data.rows) :
              /\ \A c \in {"age", "antiguedad"} :
                    (data.rows[n][c].k = "str" /\ data.rows[n][c].s \in NATexts)
                      => Result.rows[n][c] =
                            IF ColumnNumbers(c) = <<>> THEN Num(0)
                            ELSE Num(MedianOf(ColumnNumbers(c)))
              /\ (data.rows[n]["renta"].k = "str" /\ ~IsNumberText(data.rows[n]["renta"]))
                      => Result.rows[n]["renta"] =
                            IF SegmentIncomes(n) = <<>> THEN Num(0)
                            ELSE Num(MedianOf(SegmentIncomes(n)))

\* get_features returned with an 'NA' age and a renta that is no number, both
\* imputed from other records
C8_Witness ==
    /\ Returned
    /\ \E n, k \in 1..Len(data.rows) :
          /\ data.rows[n]["age"].s \in NATexts
          /\ ColumnNumbers("age") # <<>>
          /\ data.rows[k]["renta"].s = <<"1", "e">>
          /\ Result.rows[k]["renta"] = Num(4)

(***************************************************************************)
(* What the checks of the imputation compare the columns with.             *)
(***************************************************************************)
\* the columns of data after the imputation statements
Imputed == imputation(select(data, features))

\* the numbers of column c as the file gives them
RawNumbers(c) ==
    LET has == SelectSeq(Idx(Len(data.rows)), LAMBDA k : HasNumber(data.rows[k][c]))
    IN  [j \in 1..Len(has) |-> NumberIn(data.rows[has[j]][c])]

\* an observed number after the imputation: itself, or the maximum of the
\* column for a negative antiguedad
KeptNumber(c, cell) ==
    IF c = "antiguedad" /\ NumberIn(cell) < 0
    THEN Num(Max(Range(RawNumbers(c)))) ELSE Num(NumberIn(cell))

\* tiprel_1mes, segmento, indfall and cod_prov of row n after the imputation
ConstantsFilled(imputed, n) ==
    /\ imputed.tiprel_1mes[n] =
          IF IsNull(data.rows[n]["tiprel_1mes"]) THEN Str(<<"I">>)
          ELSE data.rows[n]["tiprel_1mes"]
    /\ imputed.segmento[n] = Str(SegmentCode(data.rows[n]["segmento"]))
    /\ IsNull(data.rows[n]["segmento"]) => imputed.segmento[n] = Str(<<"0", "2">>)
    /\ imputed.indfall[n] =
          IF data.rows[n]["indfall"] = Str(<<"S">>) THEN Num(1) ELSE Num(0)
    /\ imputed.cod_prov[n] =
          IF IsNull(data.rows[n]["cod_prov"]) THEN Num(99)
          ELSE data.rows[n]["cod_prov"]
    /\ Result.rows[n]["indfall"] = imputed.indfall[n]
    /\ Result.rows[n][Join(imputed.tiprel_1mes[n].s)] = Num(1)
    /\ Result.rows[n][Join(imputed.segmento[n].s)] = Num(1)

\* the columns are as the claim has them
AsClaimed(imputed) ==
    \A n \in 1..Len(data.rows) :
        /\ \A c \in {"age", "antiguedad"} :
              /\ ~IsNull(imputed[c][n])
              /\ IF HasNumber(data.rows[n][c])
                 THEN imputed[c][n] = KeptNumber(c, data.rows[n][c])
                 ELSE /\ RawNumbers(c) # <<>>
                      /\ imputed[c][n] = Num(MedianOf(RawNumbers(c)))
        /\ ConstantsFilled(imputed, n)

\* the columns are as the code fills them
AsAmended(imputed) ==
    \A n \in 1..Len(data.rows) :
        /\ \A c \in {"age", "antiguedad"} :
              /\ imputed[c][n] =
                    IF HasNumber(data.rows[n][c])
                    THEN KeptNumber(c, data.rows[n][c])
                    ELSE IF ColumnNumbers(c) = <<>> THEN NaN
                    ELSE Num(MedianOf(ColumnNumbers(c)))
              /\ Result.rows[n][c] =
                    IF IsNull(imputed[c][n]) THEN Num(0) ELSE imputed[c][n]
        /\ ConstantsFilled(imputed, n)

(***************************************************************************)
(* C19 as claimed: after the imputation no row has a missing age,          *)
(* antiguedad, tiprel_1mes, segmento, indfall or cod_prov; a missing age   *)
(* or antiguedad is the median of the observed values of the column, a     *)
(* missing tiprel_1mes is 'I', a missing segmento the code '02', a missing *)
(* indfall 'N' (0) and a missing cod_prov 99; observed values are kept,    *)
(* but for a negative antiguedad, which is the maximum of the column.      *)
(***************************************************************************)
C19_NoMissingAfterImputation == Returned => AsClaimed(Imputed)

(***************************************************************************)
(* C19 as amended: after the imputation no row has a missing tiprel_1mes,  *)
(* segmento, indfall or cod_prov: a missing tiprel_1mes is 'I', a missing  *)
(* segmento the code '02' (an observed one its two-character code), a      *)
(* missing indfall 'N' (0) and a missing cod_prov 99.  An observed age or  *)
(* antiguedad is kept, but for a negative antiguedad, which is the         *)
(* maximum of the column.  A missing age or antiguedad is the median of    *)
(* the observed values of the column, taken for antiguedad after the       *)
(* negative values were replaced; in a column with no observed value it    *)
(* stays missing, and the frame returned holds 0 for it.                   *)
(***************************************************************************)
C19_Imputation == Returned => AsAmended(Imputed)

\* a missing antiguedad filled from a column with a negative value, beside a
\* record with no tiprel_1mes, indfall and cod_prov
C19_Witness ==
    /\ Returned
    /\ \E a, b, c \in 1..Len(data.rows) :
          /\ ~HasNumber(data.rows[a]["antiguedad"])
          /\ HasNumber(data.rows[b]["antiguedad"])
          /\ NumberIn(data.rows[b]["antiguedad"]) < 0
          /\ Imputed.antiguedad[a] = Num(6)
          /\ Imputed.antiguedad[b] = Num(6)
          /\ IsNull(data.rows[c]["cod_prov"])
          /\ Imputed.cod_prov[c] = Num(99)
          /\ Imputed.tiprel_1mes[c] = Str(<<"I">>)

(***************************************************************************)
(* get_data_by_month and get_temp_features.  A row of train_ver2.csv is a  *)
(* record of the columns features + products; its date is kept as one      *)
(* piece of text, since nothing looks inside it.                           *)
(***************************************************************************)
file_columns == features \o products

\* dates.fecha_dato: the date of every row of the file
dates == [n \in 1..Len(train_ver2) |-> train_ver2[n]["fecha_dato"].s[1]]

\* ids = dates.index[dates.fecha_dato.isin(months)], as 0-based row numbers
month_ids(ms) ==
    SortedSeq({n - 1 : n \in {k \in 1..Len(dates) : dates[k] \in Range(ms)}})

\* ids[0] raises IndexError when no row has one of the dates
get_data_by_month_raises(ms) == month_ids(ms) = <<>>

\* the rows from one after the first row of the month on
read_rows_late(skip, nrows, usecols) ==
    LET left == Len(train_ver2) - (skip + 1)
        n == IF nrows < left THEN nrows ELSE left
        cols == SelectSeq(file_columns, LAMBDA c : c \in usecols)
    IN  DataFrame(cols, RangeIndex(n),
                  [k \in 1..n |->
                      [c \in Range(cols) |-> train_ver2[skip + 1 + k][c]]])

\* pd.read_csv(train_ver2.csv, usecols=usecols, skiprows=range(1, skip+1),
\*             nrows=nrows, header=0): the rows skip, ..., skip+nrows-1
\* (0-based) of the file, as far as the file goes, in the column order of
\* the file
read_rows(skip, nrows, usecols) ==
    LET left == Len(train_ver2) - skip
        n == IF nrows < left THEN nrows ELSE left
        cols == SelectSeq(file_columns, LAMBDA c : c \in usecols)
    IN  DataFrame(cols, RangeIndex(n),
                  [k \in 1..n |-> [c \in Range(cols) |-> train_ver2[skip + k][c]]])

\* get_data_by_month(dates, ms, feats, prods), when it returns
get_data_by_month(ms, feats, prods) ==
    read_rows(month_ids(ms)[1], Len(month_ids(ms)), Range(feats) \cup Range(prods))

\* list[i] of Python for i >= -len(list): a negative i counts from the end
PyItem(list, i) == IF i < 0 THEN list[Len(list) + i + 1] ELSE list[i + 1]

\* months[months.index(m) - 1]
month_before(m) == PyItem(months, (Pos(months, m) - 1) - 1)

\* temp1 ... temp4 of the month before m
lag_months(m) ==
    << month_before(m), month_before(month_before(m)),
       month_before(month_before(month_before(m))),
       month_before(month_before(month_before(month_before(m)))) >>

get_temp_features_raises(ms) ==
    \E k \in 1..Len(ms) : get_data_by_month_raises(<<ms[k]>>)

RECURSIVE merge_months_default(_, _, _)
\* the joins with the suffixes pandas uses when none is given
merge_months_default(merged, ms, k) ==
    IF k > Len(ms) THEN merged
    ELSE merge_months_default(
             fillna(merge(merged,
                          get_data_by_month(<<ms[k]>>, <<"ncodpers">>, products),
                          "ncodpers", "_x", "_y"), Num(0)),
             ms, k + 1)

RECURSIVE merge_months(_, _, _)
\* the loop of get_temp_features from the k-th month on
merge_months(merged, ms, k) ==
    IF k > Len(ms) THEN merged
    ELSE LET temp_data == get_data_by_month(<<ms[k]>>, <<"ncodpers">>, products)
             i == Pos(ms, ms[k]) - 1
         IN  merge_months(
                 fillna(merge(merged, temp_data, "ncodpers",
                              ToString(i), ToString(i + 1)), Num(0)),
                 ms, k + 1)

\* the joins leave the rows in the opposite order
get_temp_features_reversed(merged, ms) ==
    LET f == merge_months(merged, ms, 1)
    IN  DataFrame(f.cols, f.index,
                  [k \in 1..Len(f.rows) |-> f.rows[Len(f.rows) + 1 - k]])

\* get_temp_features(merged, ms), when it returns
get_temp_features(merged, ms) == merge_months(merged, ms, 1)

\* the month of the training cell
month == "2015-06-28"

\* dates, month, pmonth, data = get_data_by_month(...),
\* pdata = get_data_by_month(...)
LoadMonth ==
    /\ pc = "load"
    /\ IF get_data_by_month_raises(<<month>>)
       THEN /\ pc' = "raised"
            /\ err' = "IndexError"
            /\ bound' = bound \cup {"dates", "month", "pmonth"}
            /\ UNCHANGED <<data, pdata>>
       ELSE IF get_data_by_month_raises(<<month_before(month)>>)
       THEN /\ pc' = "raised"
            /\ err' = "IndexError"
            /\ data' = get_data_by_month(<<month>>, features, products)
            /\ bound' = bound \cup {"dates", "month", "pmonth", "data"}
            /\ UNCHANGED pdata
       ELSE /\ data' = get_data_by_month(<<month>>, features, products)
            /\ pdata' = get_data_by_month(<<month_before(month)>>,
                                          <<"ncodpers">>, products)
            /\ bound' = bound \cup {"dates", "month", "pmonth", "data", "pdata"}
            /\ pc' = "features"
            /\ UNCHANGED err
    /\ UNCHANGED <<files, movielens, X, y, splits, models, tests>>

\* temp1 ... temp4, target_months, X = get_temp_features(X, target_months),
\* X.drop(['ncodpers'], axis=1, inplace=True)
BuildLags ==
    /\ pc = "lags"
    /\ {"X", "pmonth", "dates"} \subseteq bound
    /\ LET target_months == lag_months(month_before(month))
       IN  IF get_temp_features_raises(target_months)
           THEN /\ pc' = "raised"
                /\ err' = "IndexError"
                /\ UNCHANGED <<bound, X>>
           ELSE /\ X' = drop(get_temp_features(X, target_months), "ncodpers")
                /\ bound' = bound \cup {"temp1", "temp2", "temp3", "temp4",
                                        "target_months"}
                /\ pc' = "labels"
                /\ UNCHANGED err
    /\ UNCHANGED <<files, movielens, data, pdata, y, splits, models, tests>>

(***************************************************************************)
(* Inputs of the lag check: a file of the six months up to the month of    *)
(* the training cell, one record per customer and month, the months one    *)
(* after the other.                                                        *)
(***************************************************************************)
HoldingList ==
    << <<{}, {}>>,
       <<{"ind_recibo_ult1", "ind_ahor_fin_ult1", "ind_tjcr_fin_ult1"}, {}>>,
       <<{"ind_recibo_ult1", "ind_cco_fin_ult1", "ind_nomina_ult1"}, {}>>,
       <<{"ind_recibo_ult1"}, {"ind_nomina_ult1", "ind_nom_pens_ult1"}>>,
       <<{"ind_viv_fin_ult1", "ind_valo_fin_ult1"}, {}>> >>

\* what customer c holds in the m-th month of the list months: the same in
\* the same month of the two years
HoldingAt(c, m) == HoldingList[((c + (m % 12)) % Len(HoldingList)) + 1]

\* the record of customer c in the m-th month
FileRecord(c, m) ==
    [col \in Range(file_columns) |->
        IF col = "fecha_dato" THEN Str(<<months[m]>>)
        ELSE IF col = "ncodpers" THEN Num(c)
        ELSE IF col \in DOMAIN BaseRecord THEN BaseRecord[col]
        ELSE IF col \in Range(products)
        THEN Flag(col, HoldingAt(c, m)[1], HoldingAt(c, m)[2])
        ELSE NaN]

RECURSIVE Flatten(_)
Flatten(seqs) == IF seqs = <<>> THEN <<>> ELSE Head(seqs) \o Flatten(Tail(seqs))

\* the months (positions in the list months) in which a customer of the
\* month of the training cell has a record before it
Histories == { {}, {1, 2, 3, 4, 5}, {5}, {4, 2}, {3, 1}, {1} }

\* a customer who has a record in each of the five months before and has
\* left; other customers have ids 1, 2, ...
Leaver == 9

\* the file: for each of the five months before, the records of the
\* customers in ascending order; then the month itself in the order given
LagFile(order, history, leaver) ==
    Flatten([m \in 1..5 |->
                LET cs == SortedSeq({c \in Range(order) : m \in history[c]}
                                    \cup (IF leaver THEN {Leaver} ELSE {}))
                IN  [k \in 1..Len(cs) |-> FileRecord(cs[k], m)]])
      \o [k \in 1..Len(order) |-> FileRecord(order[k], 6)]

\* the orders of the records of a month: the sequences without repetition
Orders(S) ==
    UNION { {o \in [1..n -> S] : \A a, b \in 1..n : a # b => o[a] # o[b]} :
            n \in 1..Cardinality(S) }

InitLag ==
    /\ pc = "load"
    /\ err = ""
    /\ bound = {}
    /\ \E order \in Orders(1..NumCustomers) :
          \E history \in [Range(order) -> Histories] :
              \E leaver \in BOOLEAN :
                  train_ver2 = LagFile(order, history, leaver)
    /\ test_ver2 = <<>>
    /\ NoFrames /\ NoSplits /\ NoModels /\ NoTests /\ NoMovieLens

NextLag == LoadMonth \/ BuildFeatures \/ BuildLags

SpecLag == InitLag /\ [][NextLag]_vars

(***************************************************************************)
(* C5: with one record per customer and month, the frame built by the      *)
(* join with pdata and by get_temp_features has one row for each customer  *)
(* of the month, in the order of the month, and a customer without a       *)
(* record in one of the five months before has 0 in all 24 product         *)
(* columns of that month (a customer with a record has the flags of that   *)
(* record).                                                                *)
(***************************************************************************)
\* the column of product p of the k-th month before the month: the join
\* with pdata and the four joins of get_temp_features name them p0, p1, p2,
\* p3 and p
LagColumn(k, p) == IF k = 5 THEN p ELSE p \o ToString(k - 1)

\* whether customer c has a record in the file for the date d
HasRecord(c, d) ==
    \E n \in 1..Len(train_ver2) :
        /\ train_ver2[n]["fecha_dato"] = Str(<<d>>)
        /\ train_ver2[n]["ncodpers"] = Num(c)

\* the flag of product p in the record of customer c for the date d
FileFlag(c, d, p) ==
    LET n == CHOOSE n \in 1..Len(train_ver2) :
                /\ train_ver2[n]["fecha_dato"] = Str(<<d>>)
                /\ train_ver2[n]["ncodpers"] = Num(c)
    IN  IF IsNull(train_ver2[n][p]) THEN Num(0) ELSE train_ver2[n][p]

\* the k-th month before the month of the training cell
MonthBack(k) == months[Pos(months, month) - k]

C5_LagsKeepCustomers ==
    pc = "labels" =>
        /\ Len(X.rows) = Len(data.rows)
        /\ X.index = data.index
        /\ \A n \in 1..Len(X.rows) : \A k \in 1..5 : \A p \in Range(products) :
              X.rows[n][LagColumn(k, p)] =
                  IF HasRecord(data.rows[n]["ncodpers"].v, MonthBack(k))
                  THEN FileFlag(data.rows[n]["ncodpers"].v, MonthBack(k), p)
                  ELSE Num(0)

\* two customers, the larger id first; one of them has no record in a month
\* in which the other holds a product
C5_Witness ==
    /\ pc = "labels"
    /\ Len(X.rows) = 2
    /\ data.rows[1]["ncodpers"].v > data.rows[2]["ncodpers"].v
    /\ \E k \in 1..5 : \E a, b \in 1..2 : \E p \in Range(products) :
          /\ ~HasRecord(data.rows[a]["ncodpers"].v, MonthBack(k))
          /\ HasRecord(data.rows[b]["ncodpers"].v, MonthBack(k))
          /\ X.rows[b][LagColumn(k, p)] = Num(1)
          /\ \A q \in Range(products) : X.rows[a][LagColumn(k, q)] = Num(0)

(***************************************************************************)
(* C24: for a month whose records are one block of consecutive rows of     *)
(* the file, get_data_by_month returns the records of that month, all of   *)
(* them and no other, in the order of the file: the first row returned is  *)
(* the first record of the month, the last the last.                       *)
(***************************************************************************)
\* the rows (1-based) of the file with the date d
RowsOf(d) == {n \in 1..Len(train_ver2) : train_ver2[n]["fecha_dato"] = Str(<<d>>)}

\* the rows of the date d are consecutive
OneBlock(d) ==
    \A a, b \in RowsOf(d) : \A n \in a..b : n \in RowsOf(d)

\* the frame holds the records of the date d, with the columns cols
ExactlyMonth(frame, d, cols) ==
    LET rs == SortedSeq(RowsOf(d))
    IN  /\ Range(frame.cols) = cols
        /\ Len(frame.rows) = Len(rs)
        /\ frame.index = RangeIndex(Len(rs))
        /\ \A k \in 1..Len(rs) : \A c \in cols :
              frame.rows[k][c] = train_ver2[rs[k]][c]

C24_ExactlyTheMonth ==
    /\ (pc = "features" /\ OneBlock(month)) =>
          /\ ExactlyMonth(data, month, Range(features) \cup Range(products))
          /\ \A k \in 1..Len(data.rows) :
                data.rows[k]["fecha_dato"] = Str(<<month>>)
    /\ (pc = "features" /\ OneBlock(month_before(month))) =>
          ExactlyMonth(pdata, month_before(month),
                       {"ncodpers"} \cup Range(products))

\* the month before is a block of one record between the records of two
\* other months, one of them a block of two
C24_Witness ==
    /\ pc = "features"
    /\ Len(pdata.rows) = 1
    /\ Len(data.rows) = 2
    /\ RowsOf(MonthBack(2)) # {}
    /\ \E n \in RowsOf(month_before(month)) :
          /\ n - 1 \in RowsOf(MonthBack(2))
          /\ n + 1 \in RowsOf(month)

(***************************************************************************)
(* C14: every product column of the frame built for the month holds, for   *)
(* each customer, the flags of one of the four months before the month:    *)
(* no column is read from the records of a month five or more months       *)
(* before it.                                                              *)
(***************************************************************************)
\* the flag of product p of the customer of row n in the k-th month before
LagFlag(n, k, p) ==
    IF HasRecord(data.rows[n]["ncodpers"].v, MonthBack(k))
    THEN FileFlag(data.rows[n]["ncodpers"].v, MonthBack(k), p)
    ELSE Num(0)

\* the columns of X named after a product, with or without the suffix of
\* a join
LagColumns ==
    Range(X.cols) \cap {p \o sfx : p \in Range(products),
                                   sfx \in {"", "0", "1", "2", "3", "4"}}

C14_OnlyPastFourMonths ==
    pc = "labels" =>
        \A c \in LagColumns :
            \E k \in 1..4 : \E p \in Range(products) :
                \A n \in 1..Len(X.rows) : X.rows[n][c] = LagFlag(n, k, p)

(***************************************************************************)
(* The split, the filter of the training rows and the targets of the       *)
(* validation rows (second half of the data preparation cell).             *)
(***************************************************************************)
RECURSIVE SumSeq(_)
SumSeq(q) == IF q = <<>> THEN 0 ELSE Head(q) + SumSeq(Tail(q))

\* the rows of the frame at the positions given, with their index labels
take(frame, positions) ==
    DataFrame(frame.cols,
              [k \in 1..Len(positions) |-> frame.index[positions[k]]],
              [k \in 1..Len(positions) |-> frame.rows[positions[k]]])

\* test_size=0.2: ceil(0.2 * n) rows go to the validation part
n_test(n) == (n + 4) \div 5

\* del data, pdata
\* Xtrain, Xval, ytrain, yval = train_test_split(X, y, test_size=0.2,
\*                                                random_state=0)
\* Xtrain = X; ytrain = y; del X, y
\* The rows of the validation part and their order come from the random
\* generator: any n_test rows, in any order, the same rows for X and y.
\* train_test_split raises ValueError when X and y differ in length and
\* when no row is left for the training part.
SplitTrainVal ==
    /\ pc = "split"
    /\ {"X", "y", "data", "pdata"} \subseteq bound
    /\ data' = EmptyFrame /\ pdata' = EmptyFrame
    /\ LET n == Len(X.rows)
       IN  IF Len(y.rows) # n \/ n - n_test(n) = 0
           THEN /\ pc' = "raised"
                /\ err' = "ValueError"
                /\ bound' = del(bound, {"data", "pdata"})
                /\ UNCHANGED <<X, y, Xtrain, Xval, ytrain, yval>>
           ELSE /\ \E val \in Orders(1..n) :
                      /\ Len(val) = n_test(n)
                      /\ Xval' = take(X, val)
                      /\ yval' = take(y, val)
                /\ Xtrain' = X /\ ytrain' = y
                /\ X' = EmptyFrame /\ y' = EmptyFrame
                /\ bound' = del(bound \cup {"Xtrain", "Xval", "ytrain", "yval"},
                                 {"data", "pdata", "X", "y"})
                /\ pc' = "filter"
                /\ UNCHANGED err
    /\ UNCHANGED <<files, movielens, targlist, models, tests>>

\* a sum that is not 0, whatever the row
row_sum_one(frame, n) == 1

\* np.sum(frame, axis=1) for row n
row_sum(frame, n) ==
    SumSeq([j \in 1..Len(frame.cols) |-> frame.rows[n][frame.cols[j]].v])

\* new_products = np.sum(ytrain, axis=1)
\* Xtrain = Xtrain[new_products!=0]; ytrain = ytrain[new_products!=0]
\* targlist: for every row of yval the products with label 1
FilterTrain ==
    /\ pc = "filter"
    /\ {"Xtrain", "ytrain", "yval"} \subseteq bound
    /\ LET new_products == [n \in 1..Len(ytrain.rows) |-> row_sum(ytrain, n)]
           mask == SelectSeq(Idx(Len(ytrain.rows)),
                             LAMBDA n : new_products[n] # 0)
       IN  /\ Xtrain' = take(Xtrain, mask)
           /\ ytrain' = take(ytrain, mask)
    /\ targlist' =
          [r \in 1..Len(yval.rows) |->
              LET is == SelectSeq(Idx(Len(yval.cols)),
                           LAMBDA i : yval.rows[r][yval.cols[i]] = Num(1))
              IN  [k \in 1..Len(is) |-> rec_products[is[k]]]]
    /\ bound' = bound \cup {"new_products", "targlist"}
    /\ pc' = "train"
    /\ UNCHANGED <<err, files, movielens, frames, Xval, yval, models, tests>>

(***************************************************************************)
(* The classifiers.  XGBClassifier is the library's; the model keeps of a  *)
(* classifier what it was made with and what it was fit on, and of the     *)
(* boosted trees only that the probability they give is a function of the  *)
(* classifier and of the feature row.                                      *)
(***************************************************************************)
\* xgboost.XGBClassifier(..., base_score = freq[pr]/Xtrain.shape[0]): the
\* base score is kept as the pair of the two numbers
XGBClassifier(base_score) ==
    [base_score |-> base_score, fitted |-> FALSE, feature_names |-> <<>>,
     X |-> EmptyFrame, label |-> "", y |-> <<>>]

\* the first label column, whatever the product
loc_first(frame, c) ==
    [name |-> c, index |-> frame.index,
     values |-> [n \in 1..Len(frame.rows) |-> frame.rows[n][frame.cols[1]]]]

\* frame.loc[:, c]
loc(frame, c) ==
    [name |-> c, index |-> frame.index,
     values |-> [n \in 1..Len(frame.rows) |-> frame.rows[n][c]]]

\* ytrain.sum(axis=0)
column_sums(frame) ==
    [c \in Range(frame.cols) |->
        SumSeq([n \in 1..Len(frame.rows) |-> frame.rows[n][c].v])]

\* the classifier as it is, not trained
fit_none(clf, Xt, series) == clf

\* clf.fit(Xt, series), when it returns
fit(clf, Xt, series) ==
    [clf EXCEPT !.fitted = TRUE, !.feature_names = Xt.cols, !.X = Xt,
                !.label = series.name, !.y = series.values]

\* The library checks the base score of a logistic objective when training
\* starts; a base score that is not strictly between 0 and 1 (no training
\* row or every training row has the label, or there is no training row)
\* may end fit with an error.
fit_may_raise(clf) ==
    \/ clf.base_score[1] <= 0
    \/ clf.base_score[1] >= clf.base_score[2]

\* in how many features the two rows agree
agreement(a, b, cols) == Cardinality({n \in 1..Len(cols) : a[cols[n]] = b[cols[n]]})

\* clf.predict_proba(frame) raises ValueError when the columns of the frame
\* are not the feature names of the fit
predict_raises(clf, frame) == frame.cols # clf.feature_names

\* clf.predict_proba(frame)[:, 1], when it returns: for every row a score
\* that stands for the probability of the trees, the agreement of the row
\* with the training rows that have the label less the agreement with those
\* that do not.
predict_proba(clf, frame) ==
    [r \in 1..Len(frame.rows) |->
        SumSeq([k \in 1..Len(clf.X.rows) |->
            IF clf.y[k] = Num(1)
            THEN agreement(frame.rows[r], clf.X.rows[k], clf.feature_names)
            ELSE 0 - agreement(frame.rows[r], clf.X.rows[k], clf.feature_names)])]

\* clfdict = {}; probs = []; freq = ytrain.sum(axis=0)
StartFit ==
    /\ pc = "train"
    /\ "ytrain" \in bound
    /\ clfdict' = <<>>
    /\ probs' = <<>>
    /\ bound' = bound \cup {"clfdict", "probs", "freq"}
    /\ pc' = "fit"
    /\ UNCHANGED <<err, files, movielens, frames, splits, likeliestprods, prlist, tests>>

\* one round of the loop for pr in rec_products: clf = XGBClassifier(...);
\* clfdict[pr] = clf; clf.fit(Xtrain, ytrain.loc[:, pr]);
\* ypredv = clf.predict(Xval); probs.append(clf.predict_proba(Xval)[:, 1])
\* freq is read from ytrain, which the loop does not change.
FitProduct ==
    /\ pc = "fit"
    /\ {"Xtrain", "Xval", "ytrain", "clfdict", "probs", "freq"} \subseteq bound
    /\ Len(probs) < Len(rec_products)
    /\ LET pr == rec_products[Len(probs) + 1]
           freq == column_sums(ytrain)
           clf == XGBClassifier(<<freq[pr], Len(Xtrain.rows)>>)
           put(c) == [q \in DOMAIN clfdict \cup {pr} |->
                         IF q = pr THEN c ELSE clfdict[q]]
       IN  \E raises \in {FALSE, fit_may_raise(clf)} :
              IF raises
              THEN /\ clfdict' = put(clf)
                   /\ pc' = "raised"
                   /\ err' = "XGBoostError"
                   /\ bound' = bound \cup {"pr", "clf"}
                   /\ UNCHANGED probs
              ELSE /\ clfdict' = put(fit(clf, Xtrain, loc(ytrain, pr)))
                   /\ probs' = Append(probs, predict_proba(clfdict'[pr], Xval))
                   /\ pc' = IF Len(probs') = Len(rec_products)
                            THEN "rank" ELSE "fit"
                   /\ bound' = bound \cup {"pr", "clf", "ypredv"}
                   /\ UNCHANGED err
    /\ UNCHANGED <<files, movielens, frames, splits, likeliestprods, prlist, tests>>

(***************************************************************************)
(* The test cell and the output cell.                                      *)
(***************************************************************************)
\* month = '2016-06-28'; pmonth = '2016-05-28'
test_month == "2016-06-28"

test_pmonth == "2016-05-28"

\* pd.read_csv(test_ver2.csv, usecols=usecols, header=0): every row, the
\* columns in the order of the file
read_test(usecols) ==
    LET cols == SelectSeq(features, LAMBDA c : c \in Range(usecols))
    IN  DataFrame(cols, RangeIndex(Len(test_ver2)),
                  [k \in 1..Len(test_ver2) |->
                      [c \in Range(cols) |-> test_ver2[k][c]]])

\* month, pmonth, data = pd.read_csv(test_ver2.csv, usecols=features),
\* pdata = get_data_by_month(dates, [pmonth], ['ncodpers'], products)
LoadTest ==
    /\ pc = "loadtest"
    /\ "dates" \in bound
    /\ data' = read_test(features)
    /\ IF get_data_by_month_raises(<<test_pmonth>>)
       THEN /\ pc' = "raised"
            /\ err' = "IndexError"
            /\ bound' = bound \cup {"month", "pmonth", "data"}
            /\ UNCHANGED pdata
       ELSE /\ pdata' = get_data_by_month(<<test_pmonth>>, <<"ncodpers">>,
                                          products)
            /\ bound' = bound \cup {"month", "pmonth", "data", "pdata"}
            /\ pc' = "testfeatures"
            /\ UNCHANGED err
    /\ UNCHANGED <<files, movielens, X, y, splits, models, tests>>

\* temp1 ... temp4; months = [temp1, temp2, temp3, temp4];
\* Xtest = get_temp_features(Xtest, months); ids = Xtest['ncodpers'];
\* Xtest.drop(['ncodpers'], axis=1, inplace=True); probs = []
\* The list the name months is bound to from here on is read by no later
\* statement of the run.
BuildTestLags ==
    /\ pc = "testlags"
    /\ {"Xtest", "pmonth", "dates"} \subseteq bound
    /\ LET temps == lag_months(test_pmonth)
       IN  IF get_temp_features_raises(temps)
           THEN /\ pc' = "raised"
                /\ err' = "IndexError"
                /\ bound' = bound \cup {"temp1", "temp2", "temp3", "temp4"}
                /\ UNCHANGED <<Xtest, ids, probs>>
           ELSE /\ ids' = select(get_temp_features(Xtest, temps), <<"ncodpers">>)
                /\ Xtest' = drop(get_temp_features(Xtest, temps), "ncodpers")
                /\ probs' = <<>>
                /\ bound' = bound \cup {"temp1", "temp2", "temp3", "temp4",
                                        "ids", "probs"}
                /\ pc' = "predict"
                /\ UNCHANGED err
    /\ UNCHANGED <<files, movielens, frames, splits, clfdict, likeliestprods, prlist,
                   test_preds, out>>

\* one round of the loop for pr in rec_products:
\* probs.append(clfdict[pr].predict_proba(Xtest)[:, 1])
PredictProduct ==
    /\ pc = "predict"
    /\ {"Xtest", "clfdict", "probs"} \subseteq bound
    /\ Len(probs) < Len(rec_products)
    /\ LET pr == rec_products[Len(probs) + 1]
       IN  IF predict_raises(clfdict[pr], Xtest)
           THEN /\ pc' = "raised"
                /\ err' = "ValueError"
                /\ UNCHANGED probs
           ELSE /\ probs' = Append(probs, predict_proba(clfdict[pr], Xtest))
                /\ pc' = IF Len(probs') = Len(rec_products)
                         THEN "ranktest" ELSE "predict"
                /\ UNCHANGED err
    /\ bound' = bound \cup {"pr"}
    /\ UNCHANGED <<files, movielens, frames, splits, clfdict, likeliestprods, prlist,
                   tests>>

\* out = pd.DataFrame(); out['id'] = ids;
\* for i in range(5): out['p' + str(i)] = np.array(test_preds)[:, i]
\* out.to_csv('output.csv')
\* np.array([])[:, i] raises IndexError: an array of no rows has one axis.
WriteOutput ==
    /\ pc = "write"
    /\ {"ids", "test_preds"} \subseteq bound
    /\ IF test_preds = <<>>
       THEN /\ pc' = "raised"
            /\ err' = "IndexError"
            /\ out' = DataFrame(<<"id">>, ids.index, <<>>)
       ELSE /\ out' = DataFrame(
                   <<"id">> \o [i \in 1..5 |-> "p" \o ToString(i - 1)],
                   ids.index,
                   [r \in 1..Len(ids.rows) |->
                       [c \in {"id"} \cup {"p" \o ToString(i) : i \in 0..4} |->
                           IF c = "id" THEN ids.rows[r]["ncodpers"]
                           ELSE Str(<<test_preds[r][
                                       CHOOSE i \in 1..5 :
                                           c = "p" \o ToString(i - 1)]>>)]])
            /\ pc' = "done"
            /\ UNCHANGED err
    /\ bound' = bound \cup {"out"}
    /\ UNCHANGED <<files, movielens, frames, splits, models, Xtest, ids, test_preds>>

(***************************************************************************)
(* A run of the notebook from top to bottom: the files hold the month of   *)
(* the training cell with the five months before it, and the five months   *)
(* before the month of the test file.                                      *)
(***************************************************************************)
\* the months in which a customer of the training month has a record when
\* not in all five: customers with an even id are new in the month
PartHistory(c) == IF c % 2 = 1 THEN {5, 3, 1} ELSE {4, 2}

\* the months of 2016 in which a customer of the test file has a record
TestHistory(c) == IF c % 2 = 1 THEN {13, 14, 15, 16, 17} ELSE {16, 14}

\* train_ver2.csv: the months up to 2015-06 as before, then 2016-01 to
\* 2016-05 with the records of the customers in ascending order
NotebookFile(order, history, leaver) ==
    LagFile(order, history, leaver)
      \o Flatten([k \in 1..5 |->
            LET cs == SortedSeq({c \in Range(order) : k + 12 \in TestHistory(c)}
                                \cup (IF leaver THEN {Leaver} ELSE {}))
            IN  [j \in 1..Len(cs) |-> FileRecord(cs[j], k + 12)]])

\* test_ver2.csv: one record per customer, with the features only;
\* particulares says whether the customers are of segment 02 and not, as in
\* the training month, of segment 03
TestFile(order, particulares) ==
    [k \in 1..Len(order) |->
        [col \in Range(features) |->
            IF col = "fecha_dato" THEN Str(<<test_month>>)
            ELSE IF col = "ncodpers" THEN Num(order[k])
            ELSE IF col = "segmento" /\ particulares THEN segmento_default
            ELSE IF col \in DOMAIN BaseRecord THEN BaseRecord[col]
            ELSE NaN]]

Reverse(q) == [k \in 1..Len(q) |-> q[Len(q) + 1 - k]]

\* the customers of the training month in file order; the test file holds
\* them in the opposite order
NotebookOrders ==
    {Idx(n) : n \in 1..NumCustomers} \cup {Reverse(Idx(NumCustomers))}

InitNotebook ==
    /\ pc = "load"
    /\ err = ""
    /\ bound = {}
    /\ \E order \in NotebookOrders : \E full, leaver, particulares \in BOOLEAN :
          /\ train_ver2 = NotebookFile(order,
                 [c \in Range(order) |->
                     IF full THEN {1, 2, 3, 4, 5} ELSE PartHistory(c)], leaver)
          /\ test_ver2 = TestFile(Reverse(order), particulares)
    /\ NoFrames /\ NoSplits /\ NoModels /\ NoTests /\ NoMovieLens

NextNotebook ==
    \/ LoadMonth \/ BuildFeatures \/ BuildLags \/ BuildLabels
    \/ SplitTrainVal \/ FilterTrain \/ StartFit \/ FitProduct
    \/ RankValidation
    \/ LoadTest \/ BuildTestFeatures \/ BuildTestLags \/ PredictProduct
    \/ RankTest \/ WriteOutput

SpecNotebook == InitNotebook /\ [][NextNotebook]_vars

(***************************************************************************)
(* C3: the table written to output.csv has one row for each row of the     *)
(* test feature frame; the row carries the id of the customer of that      *)
(* feature row and 5 product codes p0..p4, pairwise distinct, all of       *)
(* rec_products, which are the 5 products the classifiers score highest    *)
(* on that customer's feature row, the highest first.                      *)
(***************************************************************************)
\* the codes of row r of the table
OutCodes(r) == [k \in 1..5 |-> out.rows[r]["p" \o ToString(k - 1)]]

\* the score of the classifier of product p for row r of the test features
TestScore(p, r) == predict_proba(clfdict[p], Xtest)[r]

C3_OutputRows ==
    pc = "done" =>
        /\ out.cols = <<"id", "p0", "p1", "p2", "p3", "p4">>
        /\ Len(out.rows) = Len(Xtest.rows)
        /\ Len(out.rows) = Len(test_ver2)
        /\ \A r \in 1..Len(out.rows) :
              /\ DOMAIN out.rows[r] = Range(out.cols)
              /\ out.rows[r]["id"] = test_ver2[r]["ncodpers"]
              \* the feature row is the one of this customer
              /\ \A p \in Range(products) :
                    Xtest.rows[r][LagColumn(1, p)] =
                        IF HasRecord(out.rows[r]["id"].v, test_pmonth)
                        THEN FileFlag(out.rows[r]["id"].v, test_pmonth, p)
                        ELSE Num(0)
              /\ \A k \in 1..5 :
                    /\ OutCodes(r)[k].k = "str"
                    /\ Len(OutCodes(r)[k].s) = 1
                    /\ OutCodes(r)[k].s[1] \in Range(rec_products)
              /\ \A a, b \in 1..5 : a < b =>
                    /\ OutCodes(r)[a] # OutCodes(r)[b]
                    /\ TestScore(OutCodes(r)[a].s[1], r)
                          >= TestScore(OutCodes(r)[b].s[1], r)
              /\ \A q \in Range(rec_products) :
                    (\A k \in 1..5 : OutCodes(r)[k].s[1] # q) =>
                        \A k \in 1..5 :
                            TestScore(q, r) <= TestScore(OutCodes(r)[k].s[1], r)

\* the table is written for two customers whose first codes differ, the
\* test file holding them in the opposite order of the training month
C3_Witness ==
    /\ pc = "done"
    /\ Len(out.rows) = 2
    /\ out.rows[1]["id"].v > out.rows[2]["id"].v
    /\ out.rows[1]["p0"] # out.rows[2]["p0"]
    /\ TestScore(out.rows[1]["p0"].s[1], 1) > TestScore(out.rows[1]["p1"].s[1], 1)

(***************************************************************************)
(* C6: when the loop over rec_products ends, clfdict holds a classifier    *)
(* for every product of rec_products and under no other key; the           *)
(* classifier under product p was fit on the training rows and on the      *)
(* label column of p; column j of probs is what the classifier of          *)
(* rec_products[j] gives for the validation rows; and a round of the loop  *)
(* adds the classifier and the probabilities of its own product and        *)
(* leaves the classifiers and probabilities of the others, and the         *)
(* labels, as they are.                                                    *)
(***************************************************************************)
C6_Fitted ==
    /\ pc \in {"fit", "rank"} =>
          /\ DOMAIN clfdict = {rec_products[j] : j \in 1..Len(probs)}
          /\ \A j \in 1..Len(probs) :
                LET p == rec_products[j]
                IN  /\ clfdict[p].fitted
                    /\ clfdict[p].label = p
                    /\ clfdict[p].y =
                          [n \in 1..Len(ytrain.rows) |-> ytrain.rows[n][p]]
                    /\ clfdict[p].X = Xtrain
                    /\ clfdict[p].base_score[1] =
                          Cardinality({n \in 1..Len(ytrain.rows) :
                                          ytrain.rows[n][p] = Num(1)})
                    /\ probs[j] = predict_proba(clfdict[p], Xval)
    /\ pc \in {"rank", "loadtest", "testfeatures", "testlags", "predict",
               "ranktest", "write", "done"} =>
          DOMAIN clfdict = Range(rec_products)

C6_Round ==
    pc = "fit" =>
        LET pr == rec_products[Len(probs) + 1]
        IN  /\ pr \notin DOMAIN clfdict
            /\ DOMAIN clfdict' = DOMAIN clfdict \cup {pr}
            /\ \A q \in DOMAIN clfdict : clfdict'[q] = clfdict[q]
            /\ \A j \in 1..Len(probs) : probs'[j] = probs[j]
            /\ Len(probs') <= Len(probs) + 1
            /\ ytrain' = ytrain /\ Xtrain' = Xtrain
            /\ yval' = yval /\ Xval' = Xval

C6_PerProductLoop == [](C6_Fitted) /\ [][C6_Round]_vars

\* the loop has ended with two training rows, and two of the classifiers
\* were fit on different labels
C6_Witness ==
    /\ pc = "rank"
    /\ DOMAIN clfdict = Range(rec_products)
    /\ Len(Xtrain.rows) = 2
    /\ \E p, q \in Range(rec_products) : clfdict[p].y # clfdict[q].y

C15_FitBeforePredict ==
    pc = "predict" =>
        /\ \A p \in Range(rec_products) :
              /\ p \in DOMAIN clfdict
              /\ clfdict[p].fitted
              /\ clfdict[p].label = p
        /\ Len(probs) < Len(rec_products)
        /\ \A j \in 1..Len(probs) :
              probs[j] = predict_proba(clfdict[rec_products[j]], Xtest)
        /\ "test_preds" \notin bound /\ "out" \notin bound

\* the steps that bind test_preds and out
C15_Steps ==
    /\ ("test_preds" \in bound' \ bound) =>
          /\ pc = "ranktest"
          /\ Len(probs) = Len(rec_products)
          /\ \A j \in 1..Len(rec_products) :
                probs[j] = predict_proba(clfdict[rec_products[j]], Xtest)
          /\ "out" \notin bound
    /\ ("out" \in bound' \ bound) =>
          /\ pc = "write"
          /\ "test_preds" \in bound
          /\ test_preds' = test_preds
    /\ ("test_preds" \in bound) => test_preds' = test_preds
    /\ ("out" \in bound) => out' = out

C15_PipelineOrder == [](C15_FitBeforePredict) /\ [][C15_Steps]_vars

\* the run has written output.csv for two customers
C15_Witness ==
    /\ pc = "done"
    /\ {"test_preds", "out"} \subseteq bound
    /\ Len(out.rows) = 2
    /\ \A p \in Range(rec_products) : clfdict[p].fitted

(***************************************************************************)
(* C16: when the test file is loaded, and from then on, the names Xtrain,  *)
(* Xval, ytrain, yval, X and y are bound no more, and data and pdata hold  *)
(* no frame of the training month; no training frame and test frame are    *)
(* bound together; every statement reads only names that are bound.        *)
(***************************************************************************)
\* the names assigned in the run that the statements at a position read
Reads ==
    [load |-> {},
     features |-> {"data", "pdata"},
     lags |-> {"X", "pmonth", "dates"},
     labels |-> {"data", "pdata"},
     split |-> {"X", "y", "data", "pdata"},
     filter |-> {"Xtrain", "ytrain", "yval"},
     train |-> {"ytrain"},
     fit |-> {"Xtrain", "Xval", "ytrain", "clfdict", "probs", "freq"},
     rank |-> {"probs", "Xtrain", "Xval", "ytrain", "yval"},
     loadtest |-> {"dates"},
     testfeatures |-> {"data", "pdata"},
     testlags |-> {"Xtest", "pmonth", "dates"},
     predict |-> {"Xtest", "clfdict", "probs"},
     ranktest |-> {"probs"},
     write |-> {"ids", "test_preds"}]

TrainingNames == {"X", "y", "Xtrain", "Xval", "ytrain", "yval"}

TestPositions ==
    {"loadtest", "testfeatures", "testlags", "predict", "ranktest", "write",
     "done"}

C16_Released ==
    /\ pc \in TestPositions =>
          /\ TrainingNames \cap bound = {}
          /\ X = EmptyFrame /\ y = EmptyFrame
          /\ Xtrain = EmptyFrame /\ Xval = EmptyFrame
          /\ ytrain = EmptyFrame /\ yval = EmptyFrame
    /\ pc = "loadtest" =>
          /\ {"data", "pdata"} \cap bound = {}
          /\ data = EmptyFrame /\ pdata = EmptyFrame
    /\ ({"Xtest", "ids"} \cap bound # {}) => TrainingNames \cap bound = {}
    /\ pc \in DOMAIN Reads => Reads[pc] \subseteq bound

\* a step that reads the test file starts with the training frames released
C16_Load ==
    (pc = "loadtest" /\ data' # data) =>
        /\ (TrainingNames \cup {"data", "pdata"}) \cap bound = {}
        /\ \A n \in 1..Len(data'.rows) :
              data'.rows[n]["fecha_dato"] = Str(<<test_month>>)

C16_Disposal == [](C16_Released) /\ [][C16_Load]_vars

\* the test features of two customers are bound, after classifiers were
\* fit on training rows
C16_Witness ==
    /\ pc = "testlags"
    /\ "Xtest" \in bound /\ Len(Xtest.rows) = 2
    /\ \E p \in DOMAIN clfdict : Len(clfdict[p].X.rows) > 0

(***************************************************************************)
(* C20: after the filter of the training rows every row of ytrain has a    *)
(* label equal to 1; Xtrain and ytrain hold the rows of X and y with such  *)
(* a label, all of them and no other, in their order; Xtrain and ytrain    *)
(* have the same number of rows.                                           *)
(***************************************************************************)
\* whether row n of the label frame has a label equal to 1
HasNewProduct(frame, n) ==
    \E p \in Range(rec_products) : frame.rows[n][p] = Num(1)

C20_Filtered ==
    pc \in {"train", "fit", "rank"} =>
        /\ Len(Xtrain.rows) = Len(ytrain.rows)
        /\ Xtrain.index = ytrain.index
        /\ \A n \in 1..Len(ytrain.rows) : HasNewProduct(ytrain, n)

C20_Step ==
    /\ (pc = "split" /\ pc' = "filter") => (Xtrain' = X /\ ytrain' = y)
    /\ pc = "filter" =>
          LET kept == SelectSeq(Idx(Len(ytrain.rows)),
                                LAMBDA n : HasNewProduct(ytrain, n))
          IN  /\ Len(Xtrain.rows) = Len(ytrain.rows)
              /\ Xtrain'.cols = Xtrain.cols /\ ytrain'.cols = ytrain.cols
              /\ Len(ytrain'.rows) = Len(kept)
              /\ Len(Xtrain'.rows) = Len(kept)
              /\ \A k \in 1..Len(kept) :
                    /\ ytrain'.rows[k] = ytrain.rows[kept[k]]
                    /\ ytrain'.index[k] = ytrain.index[kept[k]]
                    /\ Xtrain'.rows[k] = Xtrain.rows[kept[k]]
                    /\ Xtrain'.index[k] = Xtrain.index[kept[k]]

C20_TrainingRowFilter == [](C20_Filtered) /\ [][C20_Step]_vars

\* of the two customers of the month one has added a product and is kept
C20_Witness ==
    /\ pc = "train"
    /\ Len(Xtrain.rows) = 1
    /\ Cardinality({n \in 1..Len(train_ver2) :
                       train_ver2[n]["fecha_dato"] = Str(<<month>>)}) = 2

(***************************************************************************)
(* C21: with at most one record per customer and month, X and y have the   *)
(* same number of rows and the same index, and row i of X and row i of y   *)
(* are those of the customer of row i of the month: the lag columns of X   *)
(* hold the flags of that customer, the labels of y are the products that  *)
(* customer has added.  The split takes the same rows of X and of y.       *)
(***************************************************************************)
C21_SameCustomer ==
    pc = "split" =>
        /\ Len(X.rows) = Len(data.rows)
        /\ Len(y.rows) = Len(X.rows)
        /\ X.index = y.index
        /\ \A n \in 1..Len(X.rows) :
              /\ \A k \in 1..5 : \A p \in Range(products) :
                    X.rows[n][LagColumn(k, p)] = LagFlag(n, k, p)
              /\ \A p \in Range(rec_products) :
                    y.rows[n][p] = Num(1) <=>
                        /\ data.rows[n][p] = Num(1)
                        /\ ~Holds(pdata, data.rows[n]["ncodpers"].v, p)

C21_SplitStep ==
    (pc = "split" /\ pc' = "filter") =>
        /\ Xval'.index = yval'.index
        /\ \A k \in 1..Len(Xval'.rows) :
              \E n \in 1..Len(X.rows) :
                  /\ X.index[n] = Xval'.index[k]
                  /\ Xval'.rows[k] = X.rows[n]
                  /\ yval'.rows[k] = y.rows[n]

C21_FeatureLabelAlignment == [](C21_SameCustomer) /\ [][C21_SplitStep]_vars

\* the month holds two customers, the larger id first, with different
\* labels and different flags of the month before
C21_Witness ==
    /\ pc = "split"
    /\ Len(X.rows) = 2
    /\ data.rows[1]["ncodpers"].v > data.rows[2]["ncodpers"].v
    /\ y.rows[1] # y.rows[2]
    /\ \E p \in Range(products) :
          X.rows[1][LagColumn(1, p)] # X.rows[2][LagColumn(1, p)]

(***************************************************************************)
(* C22: after the join with pdata and the four joins of get_temp_features  *)
(* the frame has one column for each of the 5 months before and each of    *)
(* the 24 products, which holds the flags of that month; the names of all  *)
(* columns are pairwise distinct; the product columns of the training      *)
(* frame and of the test frame have the same names in the same order.      *)
(***************************************************************************)
\* the names a product column can have after the joins
ProductLagNames ==
    {p \o sfx : p \in Range(products), sfx \in {"", "0", "1", "2", "3", "4"}}

\* the product columns among the columns, in their order
LagNames(cols) == SelectSeq(cols, LAMBDA c : c \in ProductLagNames)

\* the names in the order of the joins: the month before, then the months
\* of the list from the first to the last
JoinOrder ==
    [j \in 1..(5 * Len(products)) |->
        LagColumn(((j - 1) \div Len(products)) + 1,
                  products[((j - 1) % Len(products)) + 1])]

Distinct(cols) == \A a, b \in 1..Len(cols) : a # b => cols[a] # cols[b]

\* the k-th month before the month of the test cell
TestMonthBack(k) == months[Pos(months, test_pmonth) - (k - 1)]

\* the flag of product p of the customer of row n of the test frame in the
\* k-th month before
TestLagFlag(n, k, p) ==
    IF HasRecord(ids.rows[n]["ncodpers"].v, TestMonthBack(k))
    THEN FileFlag(ids.rows[n]["ncodpers"].v, TestMonthBack(k), p)
    ELSE Num(0)

C22_LagColumnNames ==
    /\ pc = "labels" =>
          /\ Distinct(X.cols)
          /\ LagNames(X.cols) = JoinOrder
          /\ \A n \in 1..Len(X.rows) : \A k \in 1..5 :
                \A p \in Range(products) :
                    X.rows[n][LagColumn(k, p)] = LagFlag(n, k, p)
    /\ pc = "predict" =>
          /\ Distinct(Xtest.cols)
          /\ LagNames(Xtest.cols) = JoinOrder
          /\ \A q \in DOMAIN clfdict :
                LagNames(clfdict[q].feature_names) = LagNames(Xtest.cols)
          /\ \A n \in 1..Len(Xtest.rows) : \A k \in 1..5 :
                \A p \in Range(products) :
                    Xtest.rows[n][LagColumn(k, p)] = TestLagFlag(n, k, p)

\* the test frame holds a customer with a product in the earliest month and
\* without it in the month before the test month; the classifiers were fit
\* on a frame of two rows
C22_Witness ==
    /\ pc = "predict"
    /\ \E q \in DOMAIN clfdict : Len(clfdict[q].X.rows) = 2
    /\ \E n \in 1..Len(Xtest.rows) : \E p \in Range(products) :
          /\ Xtest.rows[n][LagColumn(5, p)] = Num(1)
          /\ Xtest.rows[n][LagColumn(1, p)] = Num(0)

(***************************************************************************)
(* C23: none of the 5 product codes written to output.csv for a customer   *)
(* of the test file is a product the customer held in the month before     *)
(* the test month (2016-05-28).                                            *)
(***************************************************************************)
\* whether customer c holds product p in the month before the test month
HeldBefore(c, p) ==
    /\ HasRecord(c, test_pmonth)
    /\ FileFlag(c, test_pmonth, p) = Num(1)

C23_OnlyNewProducts ==
    pc = "done" =>
        \A r \in 1..Len(out.rows) : \A k \in 1..5 :
            ~HeldBefore(out.rows[r]["id"].v, Join(OutCodes(r)[k].s))

(***************************************************************************)
(* The MovieLens notebook: the encoders of the user and movie ids.         *)
(* A rating is held as its number of half stars (0.5 is 1, 5.0 is 10),     *)
(* which float32 holds exactly.                                            *)
(***************************************************************************)
\* the list as it is, repeated ids included
unique_all(q) == q

RECURSIVE unique(_)
\* series.unique().tolist(): the distinct values in the order in which they
\* first occur
unique(q) ==
    IF q = <<>> THEN <<>>
    ELSE LET r == unique(SubSeq(q, 1, Len(q) - 1))
         IN  IF q[Len(q)] \in Range(r) THEN r ELSE Append(r, q[Len(q)])

\* {x: i for i, x in enumerate(ids)}: a later entry replaces an earlier
\* entry of the same key
encoder(id_list) ==
    [x \in Range(id_list) |-> Max({i \in 1..Len(id_list) : id_list[i] = x}) - 1]

\* {i: x for i, x in enumerate(ids)}
decoder(id_list) == [i \in 0..(Len(id_list) - 1) |-> id_list[i + 1]]

\* df[name] = values
with_column(table, name, values) ==
    [k \in 1..Len(table) |->
        [f \in DOMAIN table[k] \cup {name} |->
            IF f = name THEN values[k] ELSE table[k][f]]]

\* the cell of the encoders: user_ids ... num_movies, the rating as float32,
\* min_rating, max_rating; min() of no rating raises ValueError
EncodeIds ==
    /\ pc = "encode"
    /\ "df" \in bound
    /\ user_ids' = unique([k \in 1..Len(df) |-> df[k].userId])
    /\ user2user_encoded' = encoder(user_ids')
    /\ userencoded2user' = decoder(user_ids')
    /\ movie_ids' = unique([k \in 1..Len(df) |-> df[k].movieId])
    /\ movie2movie_encoded' = encoder(movie_ids')
    /\ movie_encoded2movie' = decoder(movie_ids')
    /\ df' = with_column(
                with_column(df, "user",
                    [k \in 1..Len(df) |-> user2user_encoded'[df[k].userId]]),
                "movie",
                [k \in 1..Len(df) |-> movie2movie_encoded'[df[k].movieId]])
    /\ num_users' = Cardinality(DOMAIN user2user_encoded')
    /\ num_movies' = Cardinality(DOMAIN movie_encoded2movie')
    /\ IF df = <<>>
       THEN /\ pc' = "raised"
            /\ err' = "ValueError"
            /\ bound' = bound \cup
                  {"user_ids", "user2user_encoded", "userencoded2user",
                   "movie_ids", "movie2movie_encoded", "movie_encoded2movie",
                   "num_users", "num_movies"}
            /\ UNCHANGED <<min_rating, max_rating>>
       ELSE /\ min_rating' = Min({df[k].rating : k \in 1..Len(df)})
            /\ max_rating' = Max({df[k].rating : k \in 1..Len(df)})
            /\ bound' = bound \cup
                  {"user_ids", "user2user_encoded", "userencoded2user",
                   "movie_ids", "movie2movie_encoded", "movie_encoded2movie",
                   "num_users", "num_movies", "min_rating", "max_rating"}
            /\ pc' = "prepare"
            /\ UNCHANGED err
    /\ UNCHANGED <<files, storage, frames, splits, models, tests, df_index, prepared,
                   model, inputs, outputs, movie_df, recommendation>>

\* the records of ratings.csv in the checks of the encoders
MaxRatings == 3

\* raw ids are neither dense nor in order
RawUsers == {7, 3}

RawMovies == {50, 20}

RatingRecords ==
    [userId : RawUsers, movieId : RawMovies, rating : {1, 10}, timestamp : {0}]

InitEncode ==
    /\ pc = "encode"
    /\ err = ""
    /\ bound = {"df"}
    /\ NoSantander /\ NoEncoders /\ NoPrepared /\ NoNet /\ NoStorage
    /\ movie_df = <<>> /\ NoRecommendation
    /\ df \in UNION { [1..n -> RatingRecords] : n \in 0..MaxRatings }
    /\ df_index = RangeIndex(Len(df))

NextEncode == EncodeIds

SpecEncode == InitEncode /\ [][NextEncode]_vars

(***************************************************************************)
(* C10: for the users and for the movies, the encoder maps the distinct    *)
(* raw ids one-to-one onto 0..n-1, n being the number of distinct ids and  *)
(* equal to num_users (num_movies), and the decoder is its inverse.        *)
(***************************************************************************)
DenseBijection(enc, dec, raw, n) ==
    /\ n = Cardinality(raw)
    /\ DOMAIN enc = raw
    /\ {enc[x] : x \in raw} = 0..(n - 1)
    /\ \A a, b \in raw : enc[a] = enc[b] => a = b
    /\ DOMAIN dec = 0..(n - 1)
    /\ \A a \in raw : dec[enc[a]] = a
    /\ \A i \in 0..(n - 1) : enc[dec[i]] = i

C10_DenseRemapping ==
    pc \in {"prepare", "raised"} =>
        /\ DenseBijection(user2user_encoded, userencoded2user,
                          {df[k].userId : k \in 1..Len(df)}, num_users)
        /\ DenseBijection(movie2movie_encoded, movie_encoded2movie,
                          {df[k].movieId : k \in 1..Len(df)}, num_movies)
        /\ \A k \in 1..Len(df) :
              /\ userencoded2user[df[k].user] = df[k].userId
              /\ movie_encoded2movie[df[k].movie] = df[k].movieId

\* two users and two movies, with a user and a movie that occur twice, the
\* larger raw id first
C10_Witness ==
    /\ pc = "prepare"
    /\ Len(df) = 3
    /\ df[1].userId = 7 /\ df[2].userId = 7 /\ df[3].userId = 3
    /\ df[1].movieId = 50 /\ df[2].movieId = 20 /\ df[3].movieId = 50
    /\ user2user_encoded[7] = 0 /\ user2user_encoded[3] = 1
    /\ movie_encoded2movie[0] = 50 /\ movie_encoded2movie[1] = 20
    /\ num_users = 2 /\ num_movies = 2

(***************************************************************************)
(* The MovieLens notebook: RecommenderNet.  Weights are integers; the      *)
(* sigmoid is given in thousandths on the integers.                        *)
(***************************************************************************)
\* the length of the embedding vectors in the checks (EMBEDDING_SIZE)
EmbeddingSize == 2

\* the number of users and of movies of the net in the checks
NetSize == 2

\* the longest batch in the checks
MaxBatch == 2

\* tf.nn.sigmoid(x) in thousandths, for x = -7, ..., 7; beyond it is
\* rounded to the ends
SigmoidTable ==
    <<1, 2, 7, 18, 47, 119, 269, 500, 731, 881, 953, 982, 993, 998, 999>>

sigmoid(x) ==
    IF x < -7 THEN 0 ELSE IF x > 7 THEN 1000 ELSE SigmoidTable[x + 8]

\* layers.Embedding(n, size) applied to a vector of indices: row r of the
\* result is the row of the table at the r-th index
Embedding(table, indices) == [r \in 1..Len(indices) |-> table[indices[r]]]

\* tf.tensordot(a, b, 2) for two matrices of the same shape: the last two
\* axes of a are contracted with the first two of b, which leaves one
\* number, the sum over all rows and columns of the products
tensordot2(a, b) ==
    SumSeq([r \in 1..Len(a) |->
               SumSeq([e \in 1..Len(a[r]) |-> a[r][e] * b[r][e]])])

\* x = dot_user_movie + user_bias + movie_bias; tf.nn.sigmoid(x)
activation(dot_user_movie, user_bias, movie_bias) ==
    [r \in 1..Len(user_bias) |->
        <<sigmoid(dot_user_movie + user_bias[r][1] + movie_bias[r][1])>>]

\* RecommenderNet.call(inputs): the scalar is broadcast over the rows of
\* the biases, which are of shape (batch, 1)
call(self, batch) ==
    LET user_vector == Embedding(self.user_embedding,
                                 [r \in 1..Len(batch) |-> batch[r][1]])
        user_bias == Embedding(self.user_bias,
                               [r \in 1..Len(batch) |-> batch[r][1]])
        movie_vector == Embedding(self.movie_embedding,
                                  [r \in 1..Len(batch) |-> batch[r][2]])
        movie_bias == Embedding(self.movie_bias,
                                [r \in 1..Len(batch) |-> batch[r][2]])
        dot_user_movie == tensordot2(user_vector, movie_vector)
    IN  activation(dot_user_movie, user_bias, movie_bias)

\* outputs = model(inputs)
Call ==
    /\ pc = "call"
    /\ "model" \in bound
    /\ outputs' = call(model, inputs)
    /\ pc' = "called"
    /\ UNCHANGED <<err, bound, files, storage, frames, splits, models, tests, df,
                   df_index, encoders, prepared, model, inputs, movie_df,
                   recommendation>>

\* the embedding vectors of the checks: all 0, all 1, and 1 then 0s
Vectors ==
    { [e \in 1..EmbeddingSize |-> 0], [e \in 1..EmbeddingSize |-> 1],
      [e \in 1..EmbeddingSize |-> IF e = 1 THEN 1 ELSE 0] }

\* RecommenderNet(num_users, num_movies, embedding_size) with weights as
\* they may be after training
Nets ==
    [num_users : {NetSize}, num_movies : {NetSize},
     embedding_size : {EmbeddingSize},
     user_embedding : [0..(NetSize - 1) -> Vectors],
     user_bias : [0..(NetSize - 1) -> {<<0>>, <<1>>}],
     movie_embedding : [0..(NetSize - 1) -> Vectors],
     movie_bias : {[i \in 0..(NetSize - 1) |-> <<0>>],
                   [i \in 0..(NetSize - 1) |-> <<0 - i>>]}]

\* the batches: rows of a user index and a movie index
Batches ==
    UNION { [1..n -> (0..(NetSize - 1)) \X (0..(NetSize - 1))] :
            n \in 1..MaxBatch }

InitCall ==
    /\ pc = "call"
    /\ err = ""
    /\ bound = {"model"}
    /\ NoSantander /\ NoEncoders /\ NoPrepared /\ NoStorage
    /\ df = <<>> /\ df_index = <<>>
    /\ movie_df = <<>> /\ NoRecommendation
    /\ model \in Nets
    /\ inputs \in Batches
    /\ outputs = <<>>

NextCall == Call

SpecCall == InitCall /\ [][NextCall]_vars

(***************************************************************************)
(* C9: for every batch and every row r of it, the output of                *)
(* RecommenderNet.call for row r is the sigmoid of the dot product of the  *)
(* embedding of the user and the embedding of the movie of row r, plus     *)
(* the bias of that user and the bias of that movie; it depends on no      *)
(* other row of the batch.                                                 *)
(***************************************************************************)
\* the dot product of two vectors
dot(u, v) == SumSeq([e \in 1..Len(u) |-> u[e] * v[e]])

C9_ScoreOfOwnPair ==
    pc = "called" =>
        /\ Len(outputs) = Len(inputs)
        /\ \A r \in 1..Len(inputs) :
              outputs[r] =
                  <<sigmoid(dot(model.user_embedding[inputs[r][1]],
                                model.movie_embedding[inputs[r][2]])
                            + model.user_bias[inputs[r][1]][1]
                            + model.movie_bias[inputs[r][2]][1])>>

(***************************************************************************)
(* The MovieLens notebook: the shuffle, the targets and the split (cell    *)
(* "Prepare training and validation data").                                *)
(***************************************************************************)
\* a / b on float32 numbers: the quotient is kept as the pair of the two
\* numbers; a division by 0 gives nan (0 / 0) or inf and a warning, no
\* exception
divide(a, b) ==
    IF b # 0 THEN [kind |-> "num", num |-> a, den |-> b]
    ELSE IF a = 0 THEN [kind |-> "nan", num |-> 0, den |-> 0]
    ELSE [kind |-> "inf", num |-> a, den |-> 0]

\* lambda x: (x - min_rating) / (max_rating - min_rating)
normalize(rating, lo, hi) == divide(rating - lo, hi - lo)

\* the split point rounded up
train_count_ceil(n) == (9 * n + 9) \div 10

\* int(0.9 * n): the double 0.9 is a little above nine tenths and the
\* product is rounded to the nearest double, which is never below the
\* integer at or under 0.9 * n, so that the result is floor(9 * n / 10)
train_count(n) == (9 * n) \div 10

\* df = df.sample(frac=1, random_state=42): the rows in the order the
\* random generator gives, every row once, with their index labels;
\* x, y, train_indices, x_train, x_val, y_train, y_val
PrepareData ==
    /\ pc = "prepare"
    /\ {"df", "min_rating", "max_rating"} \subseteq bound
    /\ \E perm \in Orders(1..Len(df)) :
          /\ Len(perm) = Len(df)
          /\ df' = [k \in 1..Len(df) |-> df[perm[k]]]
          /\ df_index' = [k \in 1..Len(df) |-> df_index[perm[k]]]
    /\ ml_x' = [k \in 1..Len(df) |-> <<df'[k].user, df'[k].movie>>]
    /\ ml_y' = [k \in 1..Len(df) |->
                   normalize(df'[k].rating, min_rating, max_rating)]
    /\ train_indices' = train_count(Len(df))
    /\ x_train' = SubSeq(ml_x', 1, train_indices')
    /\ x_val' = SubSeq(ml_x', train_indices' + 1, Len(df))
    /\ y_train' = SubSeq(ml_y', 1, train_indices')
    /\ y_val' = SubSeq(ml_y', train_indices' + 1, Len(df))
    /\ bound' = bound \cup {"x", "y", "train_indices", "x_train", "x_val",
                            "y_train", "y_val"}
    /\ pc' = "build"
    /\ UNCHANGED <<err, files, storage, frames, splits, models, tests, encoders,
                   model, inputs, outputs, movie_df, recommendation>>

NextPrepare == EncodeIds \/ PrepareData

SpecPrepare == InitEncode /\ [][NextPrepare]_vars

XOf(rec) == <<user2user_encoded[rec.userId], movie2movie_encoded[rec.movieId]>>

YOf(rec) == normalize(rec.rating, min_rating, max_rating)

C13_Split ==
    pc = "build" =>
        LET n == Len(df)
            t == train_indices
        IN  /\ 10 * t <= 9 * n /\ 9 * n < 10 * (t + 1)
            /\ Len(x_train) = t /\ Len(y_train) = t
            /\ Len(x_val) = n - t /\ Len(y_val) = n - t
            /\ \A k \in 1..t :
                  x_train[k] = XOf(df[k]) /\ y_train[k] = YOf(df[k])
            /\ \A k \in 1..(n - t) :
                  x_val[k] = XOf(df[t + k]) /\ y_val[k] = YOf(df[t + k])
            \* the index labels tell the records apart: each occurs once
            /\ Len(df_index) = n
            /\ Range(df_index) = 0..(n - 1)

\* the shuffle moves the records with their labels
C13_Shuffle ==
    pc = "prepare" =>
        /\ Len(df') = Len(df)
        /\ \A k \in 1..Len(df) : df'[k] = df[df_index'[k] + 1]

C13_TrainValidationSplit == [](C13_Split) /\ [][C13_Shuffle]_vars

\* three records, shuffled out of their order, two for training and one
\* for validation, with different targets
C13_Witness ==
    /\ pc = "build"
    /\ Len(df) = 3
    /\ df_index = <<2, 0, 1>>
    /\ Len(x_train) = 2 /\ Len(x_val) = 1
    /\ y_train[1] # y_train[2]
    /\ x_train[1] # x_val[1]

(***************************************************************************)
(* The MovieLens notebook: the recommendations for a sampled user (cell    *)
(* "Show top 10 movie recommendations to a user").                         *)
(***************************************************************************)
\* the batch size of model.predict when none is given
predict_batch_size == 32

\* ratings.argsort()[-10:]
TopStart == -10

\* model.predict(array): the net is called on the rows of the array batch
\* by batch; the result holds the rows of all batches
predict(net, array) ==
    LET n == Len(array)
        batches == (n + predict_batch_size - 1) \div predict_batch_size
    IN  Flatten([b \in 1..batches |->
            call(net, SubSeq(array, predict_batch_size * (b - 1) + 1,
                             IF predict_batch_size * b < n
                             THEN predict_batch_size * b ELSE n))])

\* the order in which a set of ids is listed is fixed by the interpreter,
\* not by the notebook: ascending or descending here
SetOrders == {"ascending", "descending"}

\* array.flatten() of an array of one column
flatten(array) == [k \in 1..Len(array) |-> array[k][1]]

\* list(set)
set_list(S, order) ==
    IF order = "ascending" THEN SortedSeq(S) ELSE Reverse(SortedSeq(S))

\* [[movie2movie_encoded.get(x)] for x in xs]
encode_list(xs, code) == [k \in 1..Len(xs) |-> <<code[xs[k]]>>]

\* a[start:] for a negative start
Tail_from(a, start) ==
    SubSeq(a, IF Len(a) + start < 0 THEN 1 ELSE Len(a) + start + 1, Len(a))

\* the whole cell, up to recommended_movie_ids; model.predict is given an
\* array of no rows when the user has no movie left, and raises ValueError
Recommend ==
    /\ pc = "recommend"
    /\ {"df", "movie2movie_encoded", "user2user_encoded",
        "movie_encoded2movie", "model"} \subseteq bound
    /\ df # <<>>
    /\ \E uid \in {df[k].userId : k \in 1..Len(df)} :
       \E order \in SetOrders : \E tie \in TieOrders :
          LET watched == SelectSeq(df, LAMBDA r : r.userId = uid)
              seen == {watched[k].movieId : k \in 1..Len(watched)}
              series == SelectSeq(movie_df, LAMBDA r : r.movieId \notin seen)
              left == {series[k].movieId : k \in 1..Len(series)}
                          \cap DOMAIN movie2movie_encoded
          IN  /\ user_id' = uid
              /\ movies_watched_by_user' = watched
              /\ movies_not_watched' =
                    encode_list(set_list(left, order), movie2movie_encoded)
              /\ user_encoder' = user2user_encoded[uid]
              /\ user_movie_array' =
                    [k \in 1..Len(movies_not_watched') |->
                        <<user_encoder', movies_not_watched'[k][1]>>]
              /\ IF user_movie_array' = <<>>
                 THEN /\ pc' = "raised"
                      /\ err' = "ValueError"
                      /\ bound' = bound \cup
                            {"movie_df", "user_id", "movies_watched_by_user",
                             "movies_not_watched", "user_encoder",
                             "user_movie_array"}
                      /\ UNCHANGED <<ratings, top_ratings_indices,
                                     recommended_movie_ids>>
                 ELSE /\ ratings' = flatten(predict(model, user_movie_array'))
                      /\ top_ratings_indices' =
                            Reverse(Tail_from(argsort(ratings', tie), TopStart))
                      /\ recommended_movie_ids' =
                            [k \in 1..Len(top_ratings_indices') |->
                                movie_encoded2movie[
                                    movies_not_watched'[
                                        top_ratings_indices'[k] + 1][1]]]
                      /\ bound' = bound \cup
                            {"movie_df", "user_id", "movies_watched_by_user",
                             "movies_not_watched", "user_encoder",
                             "user_movie_array", "ratings",
                             "top_ratings_indices", "recommended_movie_ids"}
                      /\ pc' = "recommended"
                      /\ UNCHANGED err
    /\ UNCHANGED <<files, storage, frames, splits, models, tests, df, df_index,
                   encoders, prepared, model, inputs, outputs, movie_df>>

\* the movies of the ratings in the checks of the recommendations
NumMovies == 12

\* the raw id of the i-th movie
RawMovie(i) == 10 * i

\* ratings.csv as read: user 3 has rated the movies from the k-th on, user 7
\* the movies up to the k-th
RatingsOf(k) ==
    [i \in 1..(NumMovies - (IF k = 0 THEN 0 ELSE k - 1)) |->
        [userId |-> 3, movieId |-> RawMovie(i + (IF k = 0 THEN 0 ELSE k - 1)),
         rating |-> IF i % 2 = 0 THEN 10 ELSE 1, timestamp |-> 0]]
      \o [i \in 1..k |->
             [userId |-> 7, movieId |-> RawMovie(i),
              rating |-> IF i % 2 = 0 THEN 1 ELSE 10, timestamp |-> 0]]

\* movies.csv: the movies of the ratings; or those but the last, and
\* before them a movie nobody has rated
MoviesFile(other) ==
    IF other
    THEN <<[movieId |-> 5, title |-> "m5"]>>
           \o [i \in 1..(NumMovies - 1) |->
                  [movieId |-> RawMovie(i), title |-> "m" \o ToString(RawMovie(i))]]
    ELSE [i \in 1..NumMovies |->
             [movieId |-> RawMovie(i), title |-> "m" \o ToString(RawMovie(i))]]

\* a net after training: the bias of the movie with index i is
\* (a * i) % m - 2; the embedding vectors are 0, or 1 for the user with
\* index 0 and the movie with index 0
TrainedNet(nu, nm, a, m, flat) ==
    [num_users |-> nu, num_movies |-> nm, embedding_size |-> EmbeddingSize,
     user_embedding |-> [i \in 0..(nu - 1) |-> [e \in 1..EmbeddingSize |->
                            IF flat \/ i # 0 THEN 0 ELSE 1]],
     user_bias |-> [i \in 0..(nu - 1) |-> <<i>>],
     movie_embedding |-> [i \in 0..(nm - 1) |-> [e \in 1..EmbeddingSize |->
                            IF flat \/ i # 0 THEN 0 ELSE 1]],
     movie_bias |-> [i \in 0..(nm - 1) |-> <<((a * i) % m) - 2>>]]

\* the state after the training of the net, for the ratings given
AfterTraining(ratings_csv) ==
    /\ user_ids = unique([k \in 1..Len(ratings_csv) |-> ratings_csv[k].userId])
    /\ user2user_encoded = encoder(user_ids)
    /\ userencoded2user = decoder(user_ids)
    /\ movie_ids = unique([k \in 1..Len(ratings_csv) |-> ratings_csv[k].movieId])
    /\ movie2movie_encoded = encoder(movie_ids)
    /\ movie_encoded2movie = decoder(movie_ids)
    /\ num_users = Len(user_ids)
    /\ num_movies = Len(movie_ids)
    /\ min_rating = Min({ratings_csv[k].rating : k \in 1..Len(ratings_csv)})
    /\ max_rating = Max({ratings_csv[k].rating : k \in 1..Len(ratings_csv)})
    \* the shuffle has put the rows in the opposite order
    /\ df = Reverse(with_column(
                with_column(ratings_csv, "user",
                    [k \in 1..Len(ratings_csv) |->
                        user2user_encoded[ratings_csv[k].userId]]),
                "movie",
                [k \in 1..Len(ratings_csv) |->
                    movie2movie_encoded[ratings_csv[k].movieId]]))
    /\ df_index = Reverse(RangeIndex(Len(ratings_csv)))
    /\ ml_x = [k \in 1..Len(df) |-> <<df[k].user, df[k].movie>>]
    /\ ml_y = [k \in 1..Len(df) |->
                  normalize(df[k].rating, min_rating, max_rating)]
    /\ train_indices = train_count(Len(df))
    /\ x_train = SubSeq(ml_x, 1, train_indices)
    /\ x_val = SubSeq(ml_x, train_indices + 1, Len(df))
    /\ y_train = SubSeq(ml_y, 1, train_indices)
    /\ y_val = SubSeq(ml_y, train_indices + 1, Len(df))

InitRecommend ==
    /\ pc = "recommend"
    /\ err = ""
    /\ bound = {"df", "user_ids", "user2user_encoded", "userencoded2user",
                "movie_ids", "movie2movie_encoded", "movie_encoded2movie",
                "num_users", "num_movies", "min_rating", "max_rating",
                "x", "y", "train_indices", "x_train", "x_val", "y_train",
                "y_val", "model", "history"}
    /\ NoSantander /\ NoRecommendation /\ NoStorage
    /\ inputs = <<>> /\ outputs = <<>>
    /\ \E k \in 0..NumMovies : AfterTraining(RatingsOf(k))
    /\ \E other \in BOOLEAN : movie_df = MoviesFile(other)
    /\ \E a \in {0, 1, 3} : \E m \in {2, 5} : \E flat \in BOOLEAN :
          model = TrainedNet(num_users, num_movies, a, m, flat)

NextRecommend == Recommend

SpecRecommend == InitRecommend /\ [][NextRecommend]_vars

(***************************************************************************)
(* C12: for the sampled user the cell gives recommended_movie_ids: the     *)
(* candidates are the movies of movies.csv that the user has not rated     *)
(* and that occur in the ratings; the list holds min(10, number of         *)
(* candidates) of them, each once, those with the highest predicted        *)
(* ratings, the highest first.                                             *)
(***************************************************************************)
\* the candidates of the user
Candidates(uid) ==
    {movie_df[k].movieId : k \in 1..Len(movie_df)}
        \cap ({df[k].movieId : k \in 1..Len(df)}
                 \ {df[k].movieId : k \in {j \in 1..Len(df) : df[j].userId = uid}})

\* the predicted rating of a candidate
RatingOf(movie) ==
    ratings[CHOOSE k \in 1..Len(movies_not_watched) :
                movies_not_watched[k] = <<movie2movie_encoded[movie]>>]

C12_RankedCandidates ==
    LET top == recommended_movie_ids
        n == Cardinality(Candidates(user_id))
    IN  /\ {movie_encoded2movie[movies_not_watched[k][1]] :
               k \in 1..Len(movies_not_watched)} = Candidates(user_id)
        /\ Len(movies_not_watched) = n
        /\ Len(top) = IF n < 10 THEN n ELSE 10
        /\ Range(top) \subseteq Candidates(user_id)
        /\ \A a, b \in 1..Len(top) : a < b =>
              /\ top[a] # top[b]
              /\ RatingOf(top[a]) >= RatingOf(top[b])
        /\ \A c \in Candidates(user_id) \ Range(top) :
              \A a \in 1..Len(top) : RatingOf(c) <= RatingOf(top[a])

C12_Recommendation ==
    pc # "recommend" => (pc = "recommended" /\ C12_RankedCandidates)

(***************************************************************************)
(* The cell that fetches the MovieLens data.  The keras datasets           *)
(* directory is kept from one run of the script to the next.               *)
(***************************************************************************)
\* the directory is taken to be there
exists_always(d) == TRUE

\* movielens_dir.exists()
exists(d) == d.dir

\* keras.utils.get_file("ml-latest-small.zip", url, extract=False): the
\* file is downloaded when it is not in the directory
get_file(d) == [d EXCEPT !.zip = TRUE]

\* zip.extractall(path=keras_datasets_path): the zip file holds the
\* directory ml-latest-small with ratings.csv in it
extractall(d, zipped) == [d EXCEPT !.dir = TRUE, !.ratings = zipped]

\* movielens_zipped_file = keras.utils.get_file(...);
\* keras_datasets_path = ...; movielens_dir = ...
GetFile ==
    /\ pc = "getfile"
    /\ disk' = get_file(disk)
    /\ bound' = bound \cup {"movielens_data_file_url", "movielens_zipped_file",
                             "keras_datasets_path", "movielens_dir"}
    /\ pc' = "extract"
    /\ UNCHANGED <<err, files, frames, splits, models, tests, df, df_index,
                   encoders, prepared, model, inputs, outputs, movie_df,
                   recommendation, archive, stdout, runs>>

\* if not movielens_dir.exists(): with ZipFile(...) as zip: print(...);
\* zip.extractall(path=keras_datasets_path); print("Done!")
ExtractIfMissing ==
    /\ pc = "extract"
    /\ {"movielens_dir", "movielens_zipped_file", "keras_datasets_path"}
          \subseteq bound
    /\ IF ~exists(disk)
       THEN /\ disk' = extractall(disk, archive)
            /\ stdout' = stdout \o <<"Extracting all the files now...", "Done!">>
            /\ bound' = bound \cup {"zip"}
       ELSE UNCHANGED <<disk, stdout, bound>>
    /\ pc' = "read"
    /\ UNCHANGED <<err, files, frames, splits, models, tests, df, df_index,
                   encoders, prepared, model, inputs, outputs, movie_df,
                   recommendation, archive, runs>>

\* ratings_file = movielens_dir / "ratings.csv"; df = pd.read_csv(ratings_file)
\* read_csv raises FileNotFoundError when there is no such file.
ReadRatings ==
    /\ pc = "read"
    /\ "movielens_dir" \in bound
    /\ IF disk.dir
       THEN /\ df' = disk.ratings
            /\ df_index' = RangeIndex(Len(df'))
            /\ bound' = bound \cup {"ratings_file", "df"}
            /\ pc' = "encode"
            /\ UNCHANGED err
       ELSE /\ pc' = "raised"
            /\ err' = "FileNotFoundError"
            /\ bound' = bound \cup {"ratings_file"}
            /\ UNCHANGED <<df, df_index>>
    /\ UNCHANGED <<files, frames, splits, models, tests, encoders, prepared,
                   model, inputs, outputs, movie_df, recommendation, storage>>

\* the runs of the script in the checks of the extraction
MaxRuns == 3

\* the script is run again, from the top, in a new interpreter: no name is
\* bound; the files are as the run before left them
RunAgain ==
    /\ pc \in {"encode", "raised"}
    /\ runs < MaxRuns
    /\ runs' = runs + 1
    /\ pc' = "getfile"
    /\ err' = ""
    /\ bound' = {}
    /\ df' = <<>> /\ df_index' = <<>>
    /\ UNCHANGED <<files, frames, splits, models, tests, encoders, prepared,
                   model, inputs, outputs, movie_df, recommendation,
                   disk, archive, stdout>>

\* the ratings.csv files of the checks of the extraction
RatingFiles == [1..0 -> RatingRecords] \cup [1..1 -> RatingRecords]

\* before the first run the datasets directory is empty, or it holds what
\* earlier runs have left: the zip file, and the directory as extracted
\* from the zip file of that time
InitExtract ==
    /\ pc = "getfile"
    /\ err = ""
    /\ bound = {}
    /\ NoSantander /\ NoEncoders /\ NoPrepared /\ NoNet
    /\ movie_df = <<>> /\ NoRecommendation
    /\ df = <<>> /\ df_index = <<>>
    /\ archive \in RatingFiles
    /\ \/ disk \in {NoDisk, get_file(NoDisk)}
       \/ \E old \in RatingFiles : disk = extractall(get_file(NoDisk), old)
    /\ stdout = <<>>
    /\ runs = 1

NextExtract == GetFile \/ ExtractIfMissing \/ ReadRatings \/ RunAgain

SpecExtract == InitExtract /\ [][NextExtract]_vars

(***************************************************************************)
(* C18: a run extracts the zip file if and only if the directory           *)
(* ml-latest-small does not exist; over the runs of the script the zip     *)
(* file is extracted at most once; each run reads df from ratings.csv of   *)
(* that directory.                                                         *)
(***************************************************************************)
\* the number of extractions so far, each of which prints one line
Extractions ==
    Cardinality({k \in 1..Len(stdout) :
                    stdout[k] = "Extracting all the files now..."})

C18_Once ==
    /\ Extractions <= 1
    /\ pc # "raised"
    /\ pc \in {"read", "encode"} => disk.dir
    /\ pc = "encode" => "df" \in bound /\ df = disk.ratings

C18_Step ==
    /\ (pc = "extract" /\ ~disk.dir) =>
          /\ stdout' = stdout \o <<"Extracting all the files now...", "Done!">>
          /\ disk'.dir /\ disk'.ratings = archive
    /\ (stdout' # stdout \/ disk'.dir # disk.dir
           \/ disk'.ratings # disk.ratings) =>
          (pc = "extract" /\ ~disk.dir)

C18_ExtractOnlyFirstTime == [](C18_Once) /\ [][C18_Step]_vars

\* the last run has read the ratings that the first run extracted
C18_Witness ==
    /\ runs = MaxRuns
    /\ pc = "encode"
    /\ Extractions = 1
    /\ df = archive /\ df # <<>>

====
